---- MODULE Spec2Model ----
(***************************************************************************)
(* A model of the Mattermost link-archiver plugin (server side): the rule  *)
(* engine, the configuration snapshot, the dedup & storage layer and the   *)
(* per-URL pipeline ArchiveProcessor.processURL, one action per external   *)
(* call of the pipeline so that concurrent pipelines interleave as the     *)
(* goroutines do.                                                          *)
(***************************************************************************)
EXTENDS Integers, Sequences, FiniteSets, TLC

(***************************************************************************)
(* Bounds of the model.                                                    *)
(***************************************************************************)
\* pipeline runs (goroutines running processURL) started in one behaviour
MaxRuns == 2
\* external calls (KV, HTTP, plugin API) that fail in one behaviour
MaxFaults == 1
\* times the web server changes what it serves in one behaviour
MaxChanges == 1

\* Go's nil for a record-valued result
Nil == [nil |-> TRUE]

(***************************************************************************)
(* Go string helpers (package strings), on TLC strings.                    *)
(***************************************************************************)
HasPrefix(s, p) == Len(s) >= Len(p) /\ SubSeq(s, 1, Len(p)) = p

HasSuffix(s, p) == Len(s) >= Len(p) /\ SubSeq(s, Len(s) - Len(p) + 1, Len(s)) = p

TrimPrefix(s, p) == IF HasPrefix(s, p) THEN SubSeq(s, Len(p) + 1, Len(s)) ELSE s

TrimSuffix(s, p) == IF HasSuffix(s, p) THEN SubSeq(s, 1, Len(s) - Len(p)) ELSE s

\* strings.Index, 1-based; 0 when sub does not occur in s
RECURSIVE IndexFrom(_, _, _)
IndexFrom(s, sub, i) ==
    IF i + Len(sub) - 1 > Len(s) THEN 0
    ELSE IF SubSeq(s, i, i + Len(sub) - 1) = sub THEN i
    ELSE IndexFrom(s, sub, i + 1)

Index(s, sub) == IndexFrom(s, sub, 1)

\* url.Parse(urlStr).Hostname() for the URL shapes of the model: the authority
\* after "scheme://" up to the next "/", without a ":port"; "" when there is
\* no "://" (the string parses as a relative path) .
Hostname(urlStr) ==
    LET k == Index(urlStr, "://")
    IN IF k = 0 THEN ""
       ELSE LET rest == SubSeq(urlStr, k + 3, Len(urlStr))
                sl   == Index(rest, "/")
                auth == IF sl = 0 THEN rest ELSE SubSeq(rest, 1, sl - 1)
                co   == Index(auth, ":")
            IN IF co = 0 THEN auth ELSE SubSeq(auth, 1, co - 1)

\* the URLs of the model
U1 == "https://w.a.io/p.png"
U2 == "http://b.io/d"
URLs == {U1, U2}

\* a URL whose port url.Parse rejects
BadPortURL == "http://w.a.io:port/x"

\* the other strings handed to the functions that are called directly
OtherURLs == {"https://a.io/x", "not a url", BadPortURL}

\* url.Parse(urlStr) returns an error; of the errors of net/url the model
\* has the invalid port: a ":" in the authority followed by anything but
\* digits
ParseFails(urlStr) ==
    LET k == Index(urlStr, "://")
    IN IF k = 0 THEN FALSE
       ELSE LET rest == SubSeq(urlStr, k + 3, Len(urlStr))
                sl   == Index(rest, "/")
                auth == IF sl = 0 THEN rest ELSE SubSeq(rest, 1, sl - 1)
                co   == Index(auth, ":")
            IN /\ co # 0
               /\ \E i \in (co + 1)..Len(auth) :
                    SubSeq(auth, i, i) \notin {"0", "1", "2", "3", "4", "5", "6", "7", "8", "9"}

\* the parse of the URLs of the model, evaluated once
HostnameOfURL ==
    [urlStr \in URLs \cup OtherURLs |-> IF ParseFails(urlStr) THEN "" ELSE Hostname(urlStr)]

\* a plausible slip: the hostname is cut out of the string whether or not
\* the URL parses
hostnameOfUnparsed(urlStr) == IF urlStr \in URLs THEN HostnameOfURL[urlStr] ELSE Hostname(urlStr)

\* lines 369-372 of findArchivalTool: url.Parse and Hostname(), the hostname
\* staying "" when url.Parse fails
hostnameOf(urlStr) ==
    IF urlStr \in DOMAIN HostnameOfURL THEN HostnameOfURL[urlStr]
    ELSE IF ParseFails(urlStr) THEN ""
    ELSE Hostname(urlStr)

(***************************************************************************)
(* Rule engine (archive_processor.go).                                     *)
(***************************************************************************)
Rule(k, p, t) == [Kind |-> k, Pattern |-> p, ArchivalTool |-> t]

\* a plausible slip: the suffix is compared without the dot before it
hostnameMatchesAnySuffix(hostname, pattern) ==
    \/ hostname = pattern
    \/ /\ HasPrefix(pattern, "*.")
       /\ LET suffix == TrimPrefix(pattern, "*.")
          IN /\ suffix # ""
             /\ HasSuffix(hostname, suffix)

hostnameMatches(hostname, pattern) ==
    \/ hostname = pattern
    \/ /\ HasPrefix(pattern, "*.")
       /\ LET suffix == TrimPrefix(pattern, "*.")
          IN /\ suffix # ""
             /\ (hostname = suffix \/ HasSuffix(hostname, "." \o suffix))

\* a plausible slip: the prefix is compared without the slash after it
mimeTypeMatchesNoSlash(mimeType, pattern) ==
    \/ mimeType = pattern
    \/ /\ HasSuffix(pattern, "/*")
       /\ HasPrefix(mimeType, TrimSuffix(pattern, "/*"))

mimeTypeMatches(mimeType, pattern) ==
    \/ mimeType = pattern
    \/ /\ HasSuffix(pattern, "/*")
       /\ HasPrefix(mimeType, TrimSuffix(pattern, "/*") \o "/")

\* a plausible slip: the kind is looked at before the empty pattern
ruleMatchesKindFirst(hostname, mimeType, rule) ==
    IF rule.Kind = "" THEN FALSE
    ELSE IF rule.Kind = "hostname" THEN hostnameMatches(hostname, rule.Pattern)
    ELSE IF rule.Kind = "mimetype" THEN mimeTypeMatches(mimeType, rule.Pattern)
    ELSE FALSE

\* a plausible slip: a kind that is not "mimetype" is taken for "hostname"
ruleMatchesHostnameByDefault(hostname, mimeType, rule) ==
    IF rule.Kind = "" THEN FALSE
    ELSE IF rule.Pattern = "" THEN TRUE
    ELSE IF rule.Kind = "mimetype" THEN mimeTypeMatches(mimeType, rule.Pattern)
    ELSE hostnameMatches(hostname, rule.Pattern)

ruleMatches(hostname, mimeType, rule) ==
    IF rule.Kind = "" THEN FALSE
    ELSE IF rule.Pattern = "" THEN TRUE
    ELSE IF rule.Kind = "hostname" THEN hostnameMatches(hostname, rule.Pattern)
    ELSE IF rule.Kind = "mimetype" THEN mimeTypeMatches(mimeType, rule.Pattern)
    ELSE FALSE

\* the loop of findArchivalTool over config.ArchivalRules, from index i on
RECURSIVE scanRules(_, _, _, _)
scanRules(hostname, mimeType, rules, i) ==
    IF i > Len(rules) THEN "do_nothing"
    ELSE IF ruleMatches(hostname, mimeType, rules[i]) THEN rules[i].ArchivalTool
    ELSE scanRules(hostname, mimeType, rules, i + 1)

\* a plausible slip: the loop keeps going and the last matching rule wins
RECURSIVE scanRulesLast(_, _, _, _, _)
scanRulesLast(hostname, mimeType, rules, i, found) ==
    IF i > Len(rules) THEN found
    ELSE scanRulesLast(hostname, mimeType, rules, i + 1,
                       IF ruleMatches(hostname, mimeType, rules[i])
                       THEN rules[i].ArchivalTool ELSE found)

findArchivalToolLastWins(urlStr, mimeType, config) ==
    scanRulesLast(hostnameOf(urlStr), mimeType, config.ArchivalRules, 1, "do_nothing")

findArchivalTool(urlStr, mimeType, config) ==
    scanRules(hostnameOf(urlStr), mimeType, config.ArchivalRules, 1)

(***************************************************************************)
(* Configuration (configuration.go): pure parts.                           *)
(***************************************************************************)
\* the result of a KV load: err is TRUE when KVGet (or the decoding) failed
Loaded(v) == [err |-> FALSE, val |-> v]
LoadFailed == [err |-> TRUE, val |-> Nil]

filterDefaultRules(rules) ==
    SelectSeq(rules, LAMBDA rule : rule.Kind # "default" /\ rule.Pattern # "")

\* a plausible slip: the check of the pattern is missing
validateArchivalRulesNoPattern(rules) ==
    \A i \in 1..Len(rules) :
        /\ rules[i].Kind \in {"hostname", "mimetype"}
        /\ rules[i].ArchivalTool # ""

\* TRUE when validateArchivalRules returns no error
validateArchivalRules(rules) ==
    \A i \in 1..Len(rules) :
        /\ rules[i].Kind # ""
        /\ rules[i].Kind # "default"
        /\ rules[i].Kind \in {"hostname", "mimetype"}
        /\ rules[i].Pattern # ""
        /\ rules[i].ArchivalTool # ""

\* loadArchivalRules on the bytes KVGet returned (Nil: no such key)
loadArchivalRules(data) == IF data = Nil THEN <<>> ELSE data.rules

\* loadDefaultArchivalTool on the bytes KVGet returned
loadDefaultArchivalTool(data) == IF data = Nil THEN "" ELSE data.tool

\* saveArchivalRules / saveDefaultArchivalTool: the bytes handed to KVSet
rulesBytes(rules) == [rules |-> rules]
defaultToolBytes(tool) == [tool |-> IF tool = "" THEN "do_nothing" ELSE tool]

\* the first half of getConfiguration: the copy of p.configuration
configCopy(mem) ==
    IF mem # Nil
    THEN [DefaultArchivalTool |-> mem.DefaultArchivalTool, ArchivalRules |-> mem.ArchivalRules]
    ELSE [DefaultArchivalTool |-> "", ArchivalRules |-> <<>>]

\* the default tool getConfiguration settles on (the switch of lines 81-95)
effectiveDefault(config, defLoad) ==
    IF defLoad.err
    THEN (IF config.DefaultArchivalTool = "" THEN "do_nothing" ELSE config.DefaultArchivalTool)
    ELSE IF defLoad.val # "" THEN defLoad.val
    ELSE IF config.DefaultArchivalTool = "" THEN "do_nothing"
    ELSE config.DefaultArchivalTool

\* getConfiguration, given p.configuration and the outcomes of its two KV loads
getConfiguration(mem, rulesLoad, defLoad) ==
    LET config == configCopy(mem)
        rules  == IF rulesLoad.err THEN config.ArchivalRules
                  ELSE filterDefaultRules(rulesLoad.val)
        tool   == effectiveDefault(config, defLoad)
    IN [DefaultArchivalTool |-> tool,
        ArchivalRules |-> Append(rules, Rule("default", "", tool))]

(***************************************************************************)
(* Dedup & storage layer (storage.go): pure parts.                         *)
(***************************************************************************)
\* sha256 + hex of a byte string; the byte strings of the model are 0 (the
\* empty one), 1, 2, .., and the digest is a string, distinct for distinct
\* contents
Sha256Hex(data) ==
    IF data = 0 THEN "e3b0" ELSE IF data = 1 THEN "6b86" ELSE IF data = 2 THEN "d473" ELSE "4e07"

archivalRulesKey == "archival_rules"
defaultArchivalToolKey == "default_archival_tool"

\* direct_download.go, line 18: 100 * 1024 * 1024
MaxFileSize == 104857600

\* len(data) of the contents of the model: a small one, one of exactly
\* MaxFileSize bytes, one a byte longer
SizeOf(data) == IF data = 2 THEN MaxFileSize ELSE IF data = 3 THEN MaxFileSize + 1 ELSE data

\* what an archival tool returns for the bytes it fetched
ArchivedFile(url, data, mimeType) ==
    [Filename |-> "f" \o ToString(data), Data |-> data, MimeType |-> mimeType,
     Size |-> SizeOf(data)]

\* io.ReadAll(io.LimitReader(body, limit)): the number of bytes read
LimitReader(bodySize, limit) == IF bodySize < limit THEN bodySize ELSE limit

TooLarge == "file size exceeds maximum allowed size"

\* a plausible slip: the reader is limited to MaxFileSize bytes, so that
\* the length check after it can never fire
ArchiveTruncating(url, mimeType, resp) ==
    IF resp.StatusCode < 200 \/ resp.StatusCode >= 300
    THEN [err |-> "download failed with status", file |-> Nil]
    ELSE IF resp.ContentLength > MaxFileSize
    THEN [err |-> TooLarge, file |-> Nil]
    ELSE IF resp.ReadErr
    THEN [err |-> "failed to read file data", file |-> Nil]
    ELSE IF LimitReader(resp.BodySize, MaxFileSize) > MaxFileSize
    THEN [err |-> TooLarge, file |-> Nil]
    ELSE [err |-> "", file |-> [ArchivedFile(url, resp.Data, mimeType) EXCEPT
                                   !.Size = LimitReader(resp.BodySize, MaxFileSize)]]

\* DirectDownload.Archive on the response resp of the GET request:
\* resp.ContentLength is -1 when no Content-Length header came, BodySize is
\* the length of the body the server sends, ReadErr a failure while reading
DirectDownloadArchive(url, mimeType, resp) ==
    IF resp.StatusCode < 200 \/ resp.StatusCode >= 300
    THEN [err |-> "download failed with status", file |-> Nil]
    ELSE IF resp.ContentLength > MaxFileSize
    THEN [err |-> TooLarge, file |-> Nil]
    ELSE IF resp.ReadErr
    THEN [err |-> "failed to read file data", file |-> Nil]
    ELSE IF LimitReader(resp.BodySize, MaxFileSize + 1) > MaxFileSize
    THEN [err |-> TooLarge, file |-> Nil]
    ELSE [err |-> "", file |-> [ArchivedFile(url, resp.Data, mimeType) EXCEPT
                                   !.Size = LimitReader(resp.BodySize, MaxFileSize + 1)]]

\* a plausible slip: the digest is taken before the bytes went into the hasher
NewMetadataEmptyHash(postID, url, file, toolName, fileID, now) ==
    [PostID |-> postID, OriginalURL |-> url, FileID |-> fileID,
     Filename |-> file.Filename, MimeType |-> file.MimeType, ArchivedAt |-> now,
     ToolUsed |-> toolName, Size |-> file.Size, ETag |-> "",
     ContentHash |-> Sha256Hex(0)]

\* a plausible slip: the record takes the name of the file for its id
NewMetadataFilenameAsID(postID, url, file, toolName, fileID, now) ==
    [PostID |-> postID, OriginalURL |-> url, FileID |-> file.Filename,
     Filename |-> file.Filename, MimeType |-> file.MimeType, ArchivedAt |-> now,
     ToolUsed |-> toolName, Size |-> file.Size, ETag |-> "",
     ContentHash |-> Sha256Hex(file.Data)]

\* the record StoreArchivedFile builds once UploadFile has returned fileID
NewMetadata(postID, url, file, toolName, fileID, now) ==
    [PostID |-> postID, OriginalURL |-> url, FileID |-> fileID,
     Filename |-> file.Filename, MimeType |-> file.MimeType, ArchivedAt |-> now,
     ToolUsed |-> toolName, Size |-> file.Size, ETag |-> "",
     ContentHash |-> Sha256Hex(file.Data)]

CreateMetadataForExistingFile(postID, url, existing, now) ==
    [PostID |-> postID, OriginalURL |-> url, FileID |-> existing.FileID,
     Filename |-> existing.Filename, MimeType |-> existing.MimeType, ArchivedAt |-> now,
     ToolUsed |-> existing.ToolUsed, Size |-> existing.Size, ETag |-> existing.ETag,
     ContentHash |-> existing.ContentHash]

\* a plausible slip: the loop compares the post of the entries, not their URL
listHasPost(list, url) == \E i \in 1..Len(list) : list[i].PostID = url

\* the loop of IsURLAlreadyArchived over the decoded list
listHasURL(list, url) == \E i \in 1..Len(list) : list[i].OriginalURL = url

(***************************************************************************)
(* The world of the model: posts, messages, URLs, what the web serves.     *)
(***************************************************************************)
BotID == "bot"

\* hex(sha256(url)), the suffix of the KV keys
UrlHash(url) == IF url = U1 THEN "c1" ELSE IF url = U2 THEN "c2" ELSE "c3"

\* a message is a sequence of tokens: a bare URL, a markdown link
\* [label](target), or a word
Bare(u) == [form |-> "bare", s |-> u]
Md(u) == [form |-> "md", s |-> u]
Word(w) == [form |-> "word", s |-> w]

UserPosts == {"p1", "p2", "p3"}

\* the text of the posts users write
Message(post) ==
    IF post = "p1" THEN <<Word("see"), Bare(U1), Md(U1)>>
    ELSE IF post = "p2" THEN <<Md(U1), Word("x")>>
    ELSE <<Bare(U2), Md(U1)>>

\* the bytes a URL can serve, and the ETag header values ("" : no header)
Contents == {1, 2}
ETags == {"", "v1", "v2"}

\* the Content-Type the server sends for a URL ("" : none)
ContentType(url) == IF url = U1 THEN "image/png" ELSE ""
\* http.DetectContentType on the first bytes of the body
SniffedType(url) == "text/html"

RegisteredTools == {"direct_download", "obelisk"}

\* Go strings are byte strings; in the strings of the model "#" stands for a
\* byte that is no valid UTF-8 (a lone 0xE9, say) and "?" for U+FFFD.
\* json.Marshal writes a string coerced to valid UTF-8, every invalid byte
\* replaced by U+FFFD
RECURSIVE coerceUTF8(_)
coerceUTF8(s) ==
    LET k == Index(s, "#")
    IN IF k = 0 THEN s
       ELSE SubSeq(s, 1, k - 1) \o "?" \o coerceUTF8(SubSeq(s, k + 1, Len(s)))

\* the strings the pipeline puts into its records, and their coerced form,
\* evaluated once
PipelineStrings ==
    URLs \cup UserPosts \cup ETags \cup RegisteredTools
         \cup {"image/png", "text/html", "application/octet-stream"}
         \cup {"f" \o ToString(n) : n \in 0..9}
         \cup {Sha256Hex(data) : data \in 0..3}

CoercedUTF8 == [s \in PipelineStrings |-> coerceUTF8(s)]

jsonString(s) == IF s \in PipelineStrings THEN CoercedUTF8[s] ELSE coerceUTF8(s)

\* json.Marshal of an ArchiveMetadata, as the record json.Unmarshal reads
\* back from the bytes: the strings coerced, size and time as they were
marshalMetadata(md) ==
    [md EXCEPT !.PostID = jsonString(@), !.OriginalURL = jsonString(@),
               !.FileID = jsonString(@), !.Filename = jsonString(@),
               !.MimeType = jsonString(@), !.ToolUsed = jsonString(@),
               !.ETag = jsonString(@), !.ContentHash = jsonString(@)]

\* json.Marshal of the per-post list
marshalList(list) == [list |-> [i \in DOMAIN list |-> marshalMetadata(list[i])]]

\* json.Unmarshal of the bytes under a per-post key (Nil: no such key)
unmarshalList(data) == IF data = Nil THEN <<>> ELSE data.list


\* rule sets the KV store can hold when the plugin starts (the second holds
\* what an earlier version of the plugin left there, the third what the
\* default of DefaultArchivalTool gives when no rule was ever saved)
StoredConfigs ==
    { [rules |-> <<Rule("hostname", "*.a.io", "direct_download")>>, tool |-> "obelisk"],
      [rules |-> <<Rule("mimetype", "", "obelisk"), Rule("mimetype", "image/*", "do_nothing")>>,
       tool |-> "wget"],
      [rules |-> <<>>, tool |-> "do_nothing"] }

(***************************************************************************)
(* Link extractor (link_extractor.go).                                     *)
(***************************************************************************)
\* isValidURL: url.Parse succeeds with a scheme and a host
isValidURL(s) == ~ParseFails(s) /\ Index(s, "://") > 1 /\ Hostname(s) # ""

\* the characters the class [^\s<>"{}|\\^`\[\]] of urlPattern leaves out
\* (but for the double quote, the backslash and the backquote, which no
\* token of the model holds)
Delimiters == {" ", "<", ">", "{", "}", "|", "^", "[", "]"}

\* the cutset of strings.Trim(match, ".,;:!?)")
Cutset == {".", ",", ";", ":", "!", "?", ")"}

\* the longest prefix of s that holds no delimiter
RECURSIVE UpToDelimiter(_, _)
UpToDelimiter(s, i) ==
    IF i > Len(s) THEN s
    ELSE IF SubSeq(s, i, i) \in Delimiters THEN SubSeq(s, 1, i - 1)
    ELSE UpToDelimiter(s, i + 1)

\* strings.Trim at the end of s (a match starts with "http", which no
\* character of the cutset does)
RECURSIVE TrimCutset(_)
TrimCutset(s) ==
    IF s # "" /\ SubSeq(s, Len(s), Len(s)) \in Cutset
    THEN TrimCutset(SubSeq(s, 1, Len(s) - 1)) ELSE s

\* what the pattern (?i)(https?://[^\s<>"{}|\\^`\[\]]+) finds in one token,
\* after strings.Trim(match, ".,;:!?)"): the URL of a bare token and, as ")"
\* is no delimiter of the pattern, the target of a markdown link; the match
\* ends before the first delimiter, and the ")" after a target is trimmed
plainMatch(tok) ==
    IF tok.form \in {"bare", "md"} /\ (HasPrefix(tok.s, "http://") \/ HasPrefix(tok.s, "https://"))
    THEN <<TrimCutset(UpToDelimiter(tok.s, 1))>> ELSE <<>>

\* what \[([^\]]+)\]\(([^)]+)\) finds in one token: the target of a link
markdownMatch(tok) == IF tok.form = "md" THEN <<tok.s>> ELSE <<>>

RECURSIVE collect(_, _, _, _)
collect(message, i, pass, urls) ==
    IF i > Len(message) THEN urls
    ELSE LET m == IF pass = "plain" THEN plainMatch(message[i]) ELSE markdownMatch(message[i])
             seen == {urls[k] : k \in 1..Len(urls)}
         IN collect(message, i + 1, pass,
                    IF m # <<>> /\ isValidURL(m[1]) /\ m[1] \notin seen
                    THEN Append(urls, m[1]) ELSE urls)

\* a plausible slip: each loop has a seen map of its own
ExtractURLsSeenPerLoop(message) ==
    collect(message, 1, "plain", <<>>) \o collect(message, 1, "markdown", <<>>)

ExtractURLs(message) == collect(message, 1, "markdown", collect(message, 1, "plain", <<>>))

(***************************************************************************)
(* KV keys of the storage layer (storage.go).                              *)
(***************************************************************************)
getArchiveMetadataKey(postID, url) == "archive_post_" \o postID \o "_" \o UrlHash(url)

getGlobalArchiveKey(url) == "archive_url_" \o UrlHash(url)

(***************************************************************************)
(* State.                                                                  *)
(***************************************************************************)
VARIABLES
    kv,       \* the plugin KV store: key -> stored value
    files,    \* the file store: files[fileID] are the uploaded bytes
    web,      \* web[url]: the bytes and the ETag the server serves now, and
              \* served, the pairs <<bytes, ETag>> it has served so far
    posts,    \* post id -> post (UserId, RootId, Message, FileIds)
    hooked,   \* the posts MessageHasBeenPosted has been called for
    runs,     \* the processURL goroutines, in the order they were started
    now,      \* the clock read by time.Now()
    memCfg,   \* p.configuration
    faults,   \* failed external calls so far
    changes,  \* changes of the web so far
    fn,       \* the latest direct call of a function of the rule engine
    heap,     \* the backing arrays of the rule slices, by address
    snaps,    \* the snapshots getConfiguration returned, still held by their callers
    upd,      \* the UpdateConfig request in flight, or Nil (before: what
              \* was stored and in memory when the request came in)
    updates   \* UpdateConfig and OnConfigurationChange calls so far

\* what the pipeline leaves alone
aside == <<fn, heap, snaps, upd, updates>>

\* what the configuration handlers leave alone
pipeline == <<files, web, posts, hooked, runs, now, changes, fn>>

vars == <<kv, files, web, posts, hooked, runs, now, memCfg, faults, changes, aside>>

KVGet(key) == IF key \in DOMAIN kv THEN kv[key] ELSE Nil

\* a plausible slip: a write that gives way to a value already under the key
KVSetIfAbsent(key, value) == IF key \in DOMAIN kv THEN kv ELSE (key :> value) @@ kv

KVSet(key, value) == [k \in DOMAIN kv \cup {key} |-> IF k = key THEN value ELSE kv[k]]

\* the outcomes an external call can have: TRUE it succeeds, FALSE it fails
Outcomes == IF faults < MaxFaults THEN {TRUE, FALSE} ELSE {TRUE}

Charge(ok) == faults' = IF ok THEN faults ELSE faults + 1

FileID(n) == "f" \o ToString(n)

Running(r) == r \in 1..Len(runs) /\ runs[r].pc # "done"

SetRun(r, rec) == runs' = [runs EXCEPT ![r] = rec]

\* a goroutine entering processURL(postID, url, config)
\* (origin, prev: how the call came about; calls, ev, replies, written: its log)
NewRun(postID, url, config, origin, prev) ==
    [post |-> postID, url |-> url, config |-> config, origin |-> origin, prev |-> prev,
     pc |-> "dedup", exit |-> "", path |-> "",
     meta |-> Nil, existing |-> Nil, mimeType |-> "", toolName |-> "",
     file |-> Nil, md |-> Nil, list |-> <<>>, err |-> "",
     calls |-> <<>>, ev |-> {}, replies |-> <<>>, written |-> <<>>]

\* ExtractURLs of the posts users write, evaluated once
UserPostURLs == [id \in UserPosts |-> ExtractURLs(Message(id))]

(***************************************************************************)
(* The message hook (plugin.go) and ProcessPost (link_extractor.go).       *)
(***************************************************************************)
\* a plausible slip: ProcessPost returns after the first URL
ProcessPostFirstURL(postID, message, config) ==
    LET urls == IF postID \in UserPosts /\ message = Message(postID)
                THEN UserPostURLs[postID] ELSE ExtractURLs(message)
    IN [i \in 1..(IF urls = <<>> THEN 0 ELSE 1) |-> NewRun(postID, urls[i], config, "hook", 0)]

\* ProcessPost: one goroutine running processURL per extracted URL
ProcessPost(postID, message, config) ==
    LET urls == IF postID \in UserPosts /\ message = Message(postID)
                THEN UserPostURLs[postID] ELSE ExtractURLs(message)
    IN [i \in 1..Len(urls) |-> NewRun(postID, urls[i], config, "hook", 0)]

\* a plausible slip: the hook does not look at the author of the post
hookSpawnsAnyAuthor(id, post, config) == ProcessPost(id, post.Message, config)

\* the goroutines one call of MessageHasBeenPosted ends up starting
hookSpawns(id, post, config) ==
    IF post.UserId = BotID THEN <<>> ELSE ProcessPost(id, post.Message, config)

\* a user writes the post id and the server calls the hook for it.  okR, okD:
\* the outcomes of the two KV loads of getConfiguration
MessageHasBeenPosted(id) ==
    /\ id \in UserPosts \ DOMAIN posts
    /\ \E okR \in Outcomes, okD \in Outcomes :
        LET post == [UserId |-> "user", RootId |-> "", Message |-> Message(id), FileIds |-> <<>>]
            rulesLoad == IF okR THEN Loaded(loadArchivalRules(KVGet(archivalRulesKey))) ELSE LoadFailed
            defLoad == IF okD THEN Loaded(loadDefaultArchivalTool(KVGet(defaultArchivalToolKey)))
                       ELSE LoadFailed
            failed == (IF okR THEN 0 ELSE 1) + (IF okD THEN 0 ELSE 1)
            new == hookSpawns(id, post, getConfiguration(memCfg, rulesLoad, defLoad))
        IN /\ faults + failed <= MaxFaults
           /\ Len(runs) + Len(new) <= MaxRuns
           /\ faults' = faults + failed
           /\ posts' = posts @@ (id :> post)
           /\ runs' = runs \o new
    /\ hooked' = hooked \cup {id}
    /\ UNCHANGED <<aside, kv, files, web, now, memCfg, changes>>

\* CreatePost by the bot in the goroutine r, which goes on as rec: the server
\* stores the reply and calls the hook for it as for any post; what the hook
\* starts joins the goroutines
CreatePost(r, rec, id, reply) ==
    LET config == getConfiguration(memCfg, Loaded(loadArchivalRules(KVGet(archivalRulesKey))),
                                   Loaded(loadDefaultArchivalTool(KVGet(defaultArchivalToolKey))))
        new == hookSpawns(id, reply, config)
    IN /\ Len(runs) + Len(new) <= MaxRuns
       /\ posts' = posts @@ (id :> reply)
       /\ hooked' = hooked \cup {id}
       /\ runs' = [runs EXCEPT ![r] = rec] \o new

\* processURL is called once more with the arguments of a call that returned,
\* no call for the pair being under way
processURLAgain(r) ==
    /\ r \in 1..Len(runs) /\ runs[r].pc = "done"
    /\ \A q \in 1..Len(runs) :
        (runs[q].post = runs[r].post /\ runs[q].url = runs[r].url) => runs[q].pc = "done"
    /\ Len(runs) < MaxRuns
    /\ runs' = Append(runs, NewRun(runs[r].post, runs[r].url, runs[r].config, "again", r))
    /\ UNCHANGED <<aside, kv, files, web, posts, hooked, now, memCfg, faults, changes>>

\* what the server of url can come to serve: the first URL of the model can
\* grow beyond MaxFileSize (under a new ETag)
ContentsAt(url) == IF url = U1 THEN Contents \cup {3} ELSE Contents

\* the web server starts serving other bytes, another ETag, or both
ServerChange(url) ==
    /\ changes < MaxChanges
    /\ \E data \in ContentsAt(url), etag \in ETags :
        /\ <<data, etag>> # <<web[url].data, web[url].etag>>
        /\ data \notin Contents => etag = "v2"
        /\ web' = [web EXCEPT ![url] = [data |-> data, etag |-> etag,
                                        served |-> @.served \cup {<<data, etag>>}]]
    /\ changes' = changes + 1
    /\ UNCHANGED <<aside, kv, files, posts, hooked, runs, now, memCfg, faults>>

(***************************************************************************)
(* processURL (link_extractor.go), one action per external call.           *)
(***************************************************************************)
Range(f) == {f[i] : i \in DOMAIN f}

\* the log of a run: the external calls it made, with their outcomes
Called(run, op, ok) == Append(run.calls, <<op, ok>>)

\* a plausible slip: a failed dedup lookup ends the run like a positive one
IsURLAlreadyArchivedOrFailed(r) ==
    /\ Running(r) /\ runs[r].pc = "dedup"
    /\ \E ok \in Outcomes :
        LET run == runs[r]
            data == KVGet(getArchiveMetadataKey(run.post, run.url))
            had == data # Nil /\ listHasURL(unmarshalList(data), run.url)
            r1 == [run EXCEPT !.calls = Called(run, "IsURLAlreadyArchived", ok)]
        IN /\ Charge(ok)
           /\ SetRun(r, IF ~ok \/ had
                        THEN [r1 EXCEPT !.pc = "done", !.exit = "already_archived"]
                        ELSE [r1 EXCEPT !.pc = "probe"])
    /\ UNCHANGED <<aside, kv, files, web, posts, hooked, now, memCfg, changes>>

\* lines 150-158: the per-post dedup check
IsURLAlreadyArchived(r) ==
    /\ Running(r) /\ runs[r].pc = "dedup"
    /\ \E ok \in Outcomes :
        LET run == runs[r]
            data == KVGet(getArchiveMetadataKey(run.post, run.url))
            had == data # Nil /\ listHasURL(unmarshalList(data), run.url)
            r1 == [run EXCEPT !.calls = Called(run, "IsURLAlreadyArchived", ok)]
        IN /\ Charge(ok)
           /\ SetRun(r, IF ok /\ had
                        THEN [r1 EXCEPT !.pc = "done", !.exit = "already_archived"]
                        ELSE [r1 EXCEPT !.pc = "probe"])
    /\ UNCHANGED <<aside, kv, files, web, posts, hooked, now, memCfg, changes>>

\* a plausible slip: a failed probe is reported and ends the run
onProbeErrorFatal(run) == [run EXCEPT !.pc = "errReply", !.err = "failed to get URL metadata"]

\* lines 162-165: a failed probe is logged and processURL goes on without
\* metadata
onProbeError(run) == [run EXCEPT !.pc = "lookup", !.meta = Nil]

\* lines 160-165: the probe
GetURLMetadata(r) ==
    /\ Running(r) /\ runs[r].pc = "probe"
    /\ \E ok \in Outcomes :
        LET run == runs[r]
            meta == [MimeType |-> ContentType(run.url), ETag |-> web[run.url].etag]
            r1 == [run EXCEPT !.calls = Called(run, "GetURLMetadata", ok)]
        IN /\ Charge(ok)
           /\ SetRun(r, IF ok THEN [r1 EXCEPT !.pc = "lookup", !.meta = meta]
                        ELSE onProbeError(r1))
    /\ UNCHANGED <<aside, kv, files, web, posts, hooked, now, memCfg, changes>>

\* a plausible slip: the sentinel is not recognised and is looked up among
\* the registered tools like any other name
selectToolNoSentinel(run, mimeType) ==
    LET toolName == findArchivalTool(run.url, mimeType, run.config)
        r1 == [run EXCEPT !.mimeType = mimeType, !.toolName = toolName]
    IN IF toolName = ""
       THEN [r1 EXCEPT !.pc = "errReply", !.err = "no archival tool found for MIME type"]
       ELSE IF toolName \notin RegisteredTools
       THEN [r1 EXCEPT !.pc = "errReply", !.err = "archival tool not found"]
       ELSE [r1 EXCEPT !.pc = "archive"]

\* lines 229-257: tool selection once the MIME type is known
\* a plausible slip: the two checks of the tool name are missing
selectToolUnchecked(run, mimeType) ==
    LET toolName == findArchivalTool(run.url, mimeType, run.config)
        r1 == [run EXCEPT !.mimeType = mimeType, !.toolName = toolName]
    IN IF toolName = "do_nothing"
       THEN [r1 EXCEPT !.pc = "done", !.exit = "do_nothing"]
       ELSE [r1 EXCEPT !.pc = "archive"]

selectTool(run, mimeType) ==
    LET toolName == findArchivalTool(run.url, mimeType, run.config)
        r1 == [run EXCEPT !.mimeType = mimeType, !.toolName = toolName]
    IN IF toolName = ""
       THEN [r1 EXCEPT !.pc = "errReply", !.err = "no archival tool found for MIME type"]
       ELSE IF toolName = "do_nothing"
       THEN [r1 EXCEPT !.pc = "done", !.exit = "do_nothing"]
       ELSE IF toolName \notin RegisteredTools
       THEN [r1 EXCEPT !.pc = "errReply", !.err = "archival tool not found"]
       ELSE [r1 EXCEPT !.pc = "archive"]

\* a plausible slip: the check that both ETags are there is left out
etagMatchesLoose(existingArchive, urlMetadata) ==
    /\ existingArchive # Nil /\ urlMetadata # Nil
    /\ existingArchive.ETag = urlMetadata.ETag

\* lines 174-177: the condition of the reuse by ETag
etagMatches(existingArchive, urlMetadata) ==
    /\ existingArchive # Nil /\ urlMetadata # Nil
    /\ existingArchive.ETag # "" /\ urlMetadata.ETag # ""
    /\ existingArchive.ETag = urlMetadata.ETag

\* lines 167-227: the global lookup, the ETag comparison, the MIME type taken
\* from the probe
GetExistingArchiveForURL(r) ==
    /\ Running(r) /\ runs[r].pc = "lookup"
    /\ \E ok \in Outcomes :
        LET run == runs[r]
            existing == IF ok THEN KVGet(getGlobalArchiveKey(run.url)) ELSE Nil
            r1 == [run EXCEPT !.existing = existing, !.calls = Called(run, "GetExistingArchiveForURL", ok)]
            r2 == [r1 EXCEPT !.ev = @ \cup {"mime"}]
        IN /\ Charge(ok)
           /\ IF etagMatches(existing, run.meta)
              THEN /\ SetRun(r, [r1 EXCEPT !.pc = "reply", !.path = "etag",
                        !.md = CreateMetadataForExistingFile(run.post, run.url, existing, now)])
                   /\ now' = now + 1
              ELSE /\ SetRun(r, IF run.meta # Nil /\ run.meta.MimeType # ""
                                THEN selectTool(r2, run.meta.MimeType)
                                ELSE [r2 EXCEPT !.pc = "detect"])
                   /\ now' = now
    /\ UNCHANGED <<aside, kv, files, web, posts, hooked, memCfg, changes>>

\* lines 215-226: the fallback MIME detection (a server that failed the
\* probe of the run can fail the detection too: one outage, one fault)
DetectMimeType(r) ==
    /\ Running(r) /\ runs[r].pc = "detect"
    /\ \E ok \in Outcomes \cup (IF <<"GetURLMetadata", FALSE>> \in Range(runs[r].calls)
                               THEN {FALSE} ELSE {}) :
        LET run == runs[r]
            ctype == IF ContentType(run.url) # "" THEN ContentType(run.url) ELSE SniffedType(run.url)
            r1 == [run EXCEPT !.calls = Called(run, "DetectMimeType", ok)]
        IN /\ Charge(ok \/ <<"GetURLMetadata", FALSE>> \in Range(run.calls))
           /\ SetRun(r, IF ok THEN selectTool(r1, ctype)
                        ELSE [r1 EXCEPT !.pc = "errReply", !.err = "failed to detect MIME type"])
    /\ UNCHANGED <<aside, kv, files, web, posts, hooked, now, memCfg, changes>>

\* a plausible slip: the new hash is compared with the ETag of the record
hashMatchesETag(existingArchive, archivedFile) ==
    /\ existingArchive # Nil /\ existingArchive.ContentHash # ""
    /\ existingArchive.ETag = Sha256Hex(archivedFile.Data)

\* lines 271-276: the condition of the reuse by content hash
hashMatches(existingArchive, archivedFile) ==
    /\ existingArchive # Nil /\ existingArchive.ContentHash # ""
    /\ existingArchive.ContentHash = Sha256Hex(archivedFile.Data)

\* the response to the GET request of DirectDownload.Archive: a failure of
\* the network or the server shows as a status outside 2xx; the header
\* Content-Length, when there is one, announces the length of the body
ResponseTo(url, up, announced) ==
    [StatusCode |-> IF up THEN 200 ELSE 500,
     ContentLength |-> IF announced THEN SizeOf(web[url].data) ELSE -1,
     BodySize |-> SizeOf(web[url].data), ReadErr |-> FALSE, Data |-> web[url].data]

\* tool.Archive(url, mimeType) of the registered tool toolName (obelisk.go,
\* direct_download.go): obelisk fails when the network does
toolArchive(toolName, url, mimeType, up, announced) ==
    IF toolName = "direct_download"
    THEN DirectDownloadArchive(url, mimeType, ResponseTo(url, up, announced))
    ELSE IF up THEN [err |-> "", file |-> ArchivedFile(url, web[url].data, mimeType)]
    ELSE [err |-> "failed to archive page", file |-> Nil]

\* lines 259-318: the download, then the comparison of the content hashes
Archive(r) ==
    /\ Running(r) /\ runs[r].pc = "archive"
    /\ \E up \in Outcomes, announced \in BOOLEAN :
        LET run == runs[r]
            res == toolArchive(run.toolName, run.url, run.mimeType, up, announced)
            ok == res.err = ""
            file == res.file
            r0 == [run EXCEPT !.calls = Called(run, "Archive", ok)]
            r1 == IF res.err = TooLarge THEN [r0 EXCEPT !.ev = @ \cup {"too large"}] ELSE r0
            reused == CreateMetadataForExistingFile(run.post, run.url, run.existing, now)
        IN /\ Charge(up)
           /\ IF ~ok
              THEN /\ SetRun(r, [r1 EXCEPT !.pc = "errReply", !.err = "failed to download file"])
                   /\ now' = now
              ELSE IF hashMatches(run.existing, file)
              THEN /\ SetRun(r, [r1 EXCEPT !.pc = "reply", !.path = "hash", !.file = file,
                        !.md = IF run.meta # Nil /\ run.meta.ETag # ""
                               THEN [reused EXCEPT !.ETag = run.meta.ETag] ELSE reused])
                   /\ now' = now + 1
              ELSE /\ SetRun(r, [r1 EXCEPT !.pc = "store", !.file = file])
                   /\ now' = now
    /\ UNCHANGED <<aside, kv, files, web, posts, hooked, memCfg, changes>>

\* lines 320-334: the upload of a new artifact (storage.go, StoreArchivedFile)
StoreArchivedFile(r) ==
    /\ Running(r) /\ runs[r].pc = "store"
    /\ \E ok \in Outcomes :
        LET run == runs[r]
            fileID == FileID(Len(files) + 1)
            md == NewMetadata(run.post, run.url, run.file, run.toolName, fileID, now)
            r1 == [run EXCEPT !.calls = Called(run, "StoreArchivedFile", ok)]
        IN /\ Charge(ok)
           /\ IF ok
              THEN /\ files' = Append(files, run.file.Data)
                   /\ now' = now + 1
                   /\ SetRun(r, [r1 EXCEPT !.pc = "reply", !.path = "new",
                        !.md = IF run.meta # Nil /\ run.meta.ETag # ""
                               THEN [md EXCEPT !.ETag = run.meta.ETag] ELSE md])
              ELSE /\ SetRun(r, [r1 EXCEPT !.pc = "errReply", !.err = "failed to upload file"])
                   /\ UNCHANGED <<files, now>>
    /\ UNCHANGED <<aside, kv, web, posts, hooked, memCfg, changes>>

\* the post a reply of the bot creates (thread_reply.go)
ReplyID == "r" \o ToString(Cardinality(DOMAIN posts \ UserPosts) + 1)

\* a plausible slip: the link to the original post is added also when that
\* post is the one replied to
SuccessTextAlwaysLinks(url, originalPostID, postID, found) ==
    <<Word("archived"), Bare(url)>> \o
    (IF originalPostID # "" /\ found THEN <<Word("/pl/" \o originalPostID)>> ELSE <<>>)

\* the success message; found: GetPost of the original post and GetChannel
\* of its channel both return (a failed GetTeam only shortens the permalink)
SuccessText(url, originalPostID, postID, found) ==
    <<Word("archived"), Bare(url)>> \o
    (IF originalPostID # "" /\ originalPostID # postID /\ found
     THEN <<Word("/pl/" \o originalPostID)>> ELSE <<>>)

ErrorText(url, err) == <<Word("failed"), Bare(url), Word(err)>>

\* a plausible slip: the return after a failed reply for a reused artifact is
\* missing
afterReplyFailureNoReturn(run) == [run EXCEPT !.pc = "ppRead"]

\* lines 192-195, 294-297, 345-348: where processURL goes when the reply failed
afterReplyFailure(run) ==
    IF run.path = "new" THEN [run EXCEPT !.pc = "ppRead"]
    ELSE [run EXCEPT !.pc = "done", !.exit = "reply_failed"]

\* lines 183-195, 283-297, 336-348: the success reply with the attachment
ReplyWithAttachment(r) ==
    /\ Running(r) /\ runs[r].pc = "reply"
    /\ \E ok \in Outcomes, found \in Outcomes :
        LET run == runs[r]
            original == IF run.path = "new" THEN "" ELSE run.existing.PostID
            reply == [UserId |-> BotID, RootId |-> run.post,
                      Message |-> SuccessText(run.url, original, run.post, found),
                      FileIds |-> <<run.md.FileID>>]
            r0 == [run EXCEPT !.calls = Called(run, "ReplyWithAttachment", ok)]
            r1 == IF found THEN r0 ELSE [r0 EXCEPT !.ev = @ \cup {"original post not found"}]
        IN /\ ~found => (ok /\ original # "" /\ original # run.post)
           /\ Charge(ok /\ found)
           /\ IF ok
              THEN CreatePost(r, [r1 EXCEPT !.pc = "ppRead", !.replies = Append(@, ReplyID)],
                              ReplyID, reply)
              ELSE /\ SetRun(r, afterReplyFailure(r1))
                   /\ UNCHANGED <<posts, hooked>>
    /\ UNCHANGED <<aside, kv, files, web, now, memCfg, changes>>

\* a plausible slip: the run ends once the per-post record is dealt with
afterPerPostSkipsGlobal(run) ==
    [run EXCEPT !.pc = "done", !.exit = IF run.path = "etag" THEN "reused_etag" ELSE "archived"]

\* a plausible slip: the return that ends the reuse by ETag is missing, and
\* the run goes on to write the global record
afterPerPostAlwaysGlobal(run) == [run EXCEPT !.pc = "glWrite"]

\* where processURL goes after StoreArchiveMetadata has returned
afterPerPost(run) ==
    IF run.path = "etag" THEN [run EXCEPT !.pc = "done", !.exit = "reused_etag"]
    ELSE IF run.path = "hash" /\ ~(run.meta # Nil /\ run.meta.ETag # "")
    THEN [run EXCEPT !.pc = "done", !.exit = "reused_hash"]
    ELSE [run EXCEPT !.pc = "glWrite"]

\* a plausible slip: a failed write of the per-post record is reported
onPersistErrorReplies(run) == [run EXCEPT !.pc = "errReply", !.err = "failed to store metadata"]

\* lines 198-200, 300-302, 351-354: a failed StoreArchiveMetadata is logged
\* and processURL goes on as after a successful one
onPersistError(run) == afterPerPost(run)

\* StoreArchiveMetadata (storage.go), first half: KVGet of the per-post key
StoreArchiveMetadataGet(r) ==
    /\ Running(r) /\ runs[r].pc = "ppRead"
    /\ \E ok \in Outcomes :
        LET run == runs[r]
            data == KVGet(getArchiveMetadataKey(run.md.PostID, run.md.OriginalURL))
            r1 == [run EXCEPT !.calls = Called(run, "StoreArchiveMetadata.KVGet", ok)]
        IN /\ Charge(ok)
           /\ SetRun(r, IF ok
                        THEN [r1 EXCEPT !.pc = "ppWrite",
                                        !.list = unmarshalList(data)]
                        ELSE onPersistError(r1))
    /\ UNCHANGED <<aside, kv, files, web, posts, hooked, now, memCfg, changes>>

\* a plausible slip: the list starts afresh, as it does for undecodable bytes
metadataListFresh(list, metadata) == <<metadata>>

\* storage.go 112-122: the list StoreArchiveMetadata writes back
metadataList(list, metadata) == Append(list, metadata)

\* StoreArchiveMetadata, second half: KVSet of the list with the record appended
StoreArchiveMetadataSet(r) ==
    /\ Running(r) /\ runs[r].pc = "ppWrite"
    /\ \E ok \in Outcomes :
        LET run == runs[r]
            key == getArchiveMetadataKey(run.md.PostID, run.md.OriginalURL)
            value == marshalList(metadataList(run.list, run.md))
            r1 == [run EXCEPT !.calls = Called(run, "StoreArchiveMetadata.KVSet", ok),
                              !.written = IF ok THEN Append(@, <<key, value>>) ELSE @]
        IN /\ Charge(ok)
           /\ kv' = IF ok THEN KVSet(key, value) ELSE kv
           /\ SetRun(r, IF ok THEN afterPerPost(r1) ELSE onPersistError(r1))
    /\ UNCHANGED <<aside, files, web, posts, hooked, now, memCfg, changes>>

\* a plausible slip: the refresh takes a new timestamp but leaves the ETag
refreshedArchiveOldETag(existingArchive, urlMetadata, t) ==
    [existingArchive EXCEPT !.ArchivedAt = t]

\* lines 305-306: the global record as the reuse by hash rewrites it
refreshedArchive(existingArchive, urlMetadata, t) ==
    [existingArchive EXCEPT !.ETag = urlMetadata.ETag, !.ArchivedAt = t]

\* lines 304-311 and 356-360: the write of the global record
StoreGlobalArchiveMetadata(r) ==
    /\ Running(r) /\ runs[r].pc = "glWrite"
    /\ \E ok \in Outcomes :
        LET run == runs[r]
            metadata == IF run.path = "hash"
                        THEN refreshedArchive(run.existing, run.meta, now) ELSE run.md
            record == marshalMetadata(metadata)
            key == getGlobalArchiveKey(metadata.OriginalURL)
            r1 == [run EXCEPT !.calls = Called(run, "StoreGlobalArchiveMetadata", ok),
                              !.written = IF ok THEN Append(@, <<key, record>>) ELSE @]
        IN /\ Charge(ok)
           /\ kv' = IF ok THEN KVSet(key, record) ELSE kv
           /\ now' = IF run.path = "hash" THEN now + 1 ELSE now
           /\ SetRun(r, [r1 EXCEPT !.pc = "done",
                                   !.exit = IF run.path = "hash" THEN "reused_hash" ELSE "archived"])
    /\ UNCHANGED <<aside, files, web, posts, hooked, memCfg, changes>>

\* the error reply of lines 219-223, 234-238, 252-256, 264-267, 325-328
ReplyWithError(r) ==
    /\ Running(r) /\ runs[r].pc = "errReply"
    /\ \E ok \in Outcomes :
        LET run == runs[r]
            reply == [UserId |-> BotID, RootId |-> run.post,
                      Message |-> ErrorText(run.url, run.err), FileIds |-> <<>>]
            r1 == [run EXCEPT !.calls = Called(run, "ReplyWithError", ok),
                              !.pc = "done", !.exit = "failed"]
        IN /\ Charge(ok)
           /\ IF ok
              THEN CreatePost(r, [r1 EXCEPT !.replies = Append(@, ReplyID)], ReplyID, reply)
              ELSE /\ SetRun(r, r1)
                   /\ UNCHANGED <<posts, hooked>>
    /\ UNCHANGED <<aside, kv, files, web, now, memCfg, changes>>

NoCall == [op |-> "none"]

(***************************************************************************)
(* The pipeline specification.                                             *)
(***************************************************************************)
\* the state OnActivate leaves for one of the stored configurations cs, the
\* web servers sending one of etags
InitOn(cs, etags) ==
    /\ \E c \in cs :
        /\ kv = (archivalRulesKey :> rulesBytes(c.rules)) @@
                (defaultArchivalToolKey :> defaultToolBytes(c.tool))
        /\ memCfg = [DefaultArchivalTool |-> c.tool,
                     ArchivalRules |-> filterDefaultRules(c.rules)]
    /\ files = <<>>
    /\ \E etag \in etags :
        web = [url \in URLs |-> [data |-> 1, etag |-> etag, served |-> {<<1, etag>>}]]
    /\ posts = <<>>
    /\ hooked = {}
    /\ runs = <<>>
    /\ now = 1
    /\ faults = 0
    /\ changes = 0
    /\ fn = NoCall
    /\ heap = <<>> /\ snaps = <<>> /\ upd = Nil /\ updates = 0

Init == InitOn(StoredConfigs, {"", "v1"})

RunStep(r) ==
    \/ IsURLAlreadyArchived(r)
    \/ GetURLMetadata(r)
    \/ GetExistingArchiveForURL(r)
    \/ DetectMimeType(r)
    \/ Archive(r)
    \/ StoreArchivedFile(r)
    \/ ReplyWithAttachment(r)
    \/ StoreArchiveMetadataGet(r)
    \/ StoreArchiveMetadataSet(r)
    \/ StoreGlobalArchiveMetadata(r)
    \/ ReplyWithError(r)

Next ==
    \/ \E id \in UserPosts : MessageHasBeenPosted(id)
    \/ \E r \in 1..MaxRuns : processURLAgain(r)
    \/ \E url \in URLs : ServerChange(url)
    \/ \E r \in 1..MaxRuns : RunStep(r)

Spec == Init /\ [][Next]_vars

\* a goroutine that can take a step eventually takes one: every external
\* call returns or times out
Fairness == \A r \in 1..MaxRuns : WF_vars(RunStep(r))

\* the stored configurations under which both registered tools are used
ArchivingConfigs == {c \in StoredConfigs : c.tool \in RegisteredTools}

\* the fair behaviours are checked from the initial states in which a run
\* can take every path: both tools in use, the servers sending ETags
FairSpec == InitOn(ArchivingConfigs, {"v1"}) /\ [][Next]_vars /\ Fairness

(***************************************************************************)
(* The rule engine called directly: findArchivalTool on the configurations *)
(* getConfiguration can hand to it.                                        *)
(***************************************************************************)
\* user rules per configuration
MaxRules == 2

\* the rules a stored rule list can hold (getConfiguration drops those with
\* kind "default" or an empty pattern)
RulePool ==
    { Rule("hostname", "w.a.io", "obelisk"),
      Rule("hostname", "*.a.io", "direct_download"),
      Rule("mimetype", "image/*", "do_nothing"),
      Rule("mimetype", "image/png", "obelisk"),
      Rule("mimetype", "text/html", "direct_download"),
      Rule("regex", ".*", "obelisk"),
      Rule("", "a.io", "obelisk") }

RuleLists == UNION {[1..n -> RulePool] : n \in 0..MaxRules}

DefaultTools == {"do_nothing", "obelisk"}

CallURLs == URLs \cup OtherURLs

CallMimeTypes == {"image/png", "text/html", ""}

\* the state before any call
InitRules ==
    /\ kv = <<>> /\ memCfg = Nil
    /\ files = <<>>
    /\ web = [url \in URLs |-> [data |-> 1, etag |-> "", served |-> {<<1, "">>}]]
    /\ posts = <<>> /\ hooked = {} /\ runs = <<>>
    /\ now = 1 /\ faults = 0 /\ changes = 0
    /\ fn = NoCall
    /\ heap = <<>> /\ snaps = <<>> /\ upd = Nil /\ updates = 0

\* findArchivalTool(urlStr, mimeType, config) is called on a snapshot as
\* getConfiguration builds them: the user rules, then the default rule
CallFindArchivalTool(urlStr, mimeType, rules, tool) ==
    LET config == [DefaultArchivalTool |-> tool,
                   ArchivalRules |-> Append(rules, Rule("default", "", tool))]
    IN /\ fn' = [op |-> "findArchivalTool", urlStr |-> urlStr, mimeType |-> mimeType,
                 config |-> config, result |-> findArchivalTool(urlStr, mimeType, config)]
       /\ UNCHANGED <<kv, files, web, posts, hooked, runs, now, memCfg, faults, changes,
                      heap, snaps, upd, updates>>

\* findArchivalTool(urlStr, mimeType, config) is called on a configuration
\* built by hand, as the tests do: the rules as given, no default rule added
CallFindArchivalToolOnRules(urlStr, mimeType, rules) ==
    LET config == [DefaultArchivalTool |-> "", ArchivalRules |-> rules]
    IN /\ fn' = [op |-> "findArchivalTool on rules", urlStr |-> urlStr,
                 mimeType |-> mimeType, config |-> config,
                 result |-> findArchivalTool(urlStr, mimeType, config)]
       /\ UNCHANGED <<kv, files, web, posts, hooked, runs, now, memCfg, faults, changes,
                      heap, snaps, upd, updates>>

NextRules ==
    \/ \E urlStr \in CallURLs, mimeType \in CallMimeTypes, rules \in RuleLists,
          tool \in DefaultTools : CallFindArchivalTool(urlStr, mimeType, rules, tool)
    \/ \E urlStr \in CallURLs, mimeType \in CallMimeTypes, rules \in RuleLists :
          CallFindArchivalToolOnRules(urlStr, mimeType, rules)

SpecRules == InitRules /\ [][NextRules]_vars

(***************************************************************************)
(* C5.  The first matching rule wins.                                      *)
(***************************************************************************)
\* the positions of the rules of the call whose predicate holds
Matching ==
    {i \in 1..Len(fn.config.ArchivalRules) :
        ruleMatches(hostnameOf(fn.urlStr), fn.mimeType, fn.config.ArchivalRules[i])}

\* C5: findArchivalTool returns the tool of the first rule, in the order of
\* the list, whose predicate holds for the hostname of the URL and the MIME
\* type, whatever rules match after it; when no earlier rule matches this
\* is the final catch-all rule.
C5_FirstMatchWins ==
    fn.op = "findArchivalTool" =>
        LET rules == fn.config.ArchivalRules
        IN /\ Len(rules) \in Matching
           /\ \E i \in Matching :
                /\ \A j \in Matching : i <= j
                /\ fn.result = rules[i].ArchivalTool
           /\ Matching = {Len(rules)} => fn.result = rules[Len(rules)].ArchivalTool

\* a call where three rules match, the first with a tool of its own
C5_Witness ==
    /\ fn.op = "findArchivalTool"
    /\ Cardinality(Matching) = 3
    /\ \E i \in Matching :
        /\ \A j \in Matching : i <= j
        /\ fn.result = fn.config.ArchivalRules[i].ArchivalTool
        /\ \A j \in Matching \ {i} : fn.config.ArchivalRules[j].ArchivalTool # fn.result

(***************************************************************************)
(* Configuration under updates (configuration.go, api.go): p.configuration,*)
(* the two KV keys, and the backing arrays the rule slices point into.     *)
(* A slice is an address and a length; append writes in place when the     *)
(* array has room after the slice.                                         *)
(***************************************************************************)
\* snapshots held at once
MaxReads == 2
\* UpdateConfig and OnConfigurationChange calls
MaxUpdates == 2
\* failed KV calls of the configuration handlers
MaxLoadFaults == 2

NilSlice == [arr |-> 0, len |-> 0]

\* the elements a slice shows
View(h, s) == IF s.arr = 0 THEN <<>> ELSE SubSeq(h[s.arr].cells, 1, s.len)

\* a slice over a new array of the given capacity
MakeSlice(h, elems, capacity) ==
    [heap |-> Append(h, [cap |-> capacity, cells |-> elems]),
     slice |-> [arr |-> Len(h) + 1, len |-> Len(elems)]]

\* append(s, e): in place when cap(s) > len(s), into a new array otherwise
AppendSlice(h, s, e) ==
    IF s.arr # 0 /\ s.len < h[s.arr].cap
    THEN [heap |-> [h EXCEPT ![s.arr].cells = Append(SubSeq(@, 1, s.len), e)],
          slice |-> [arr |-> s.arr, len |-> s.len + 1]]
    ELSE MakeSlice(h, Append(View(h, s), e), IF s.len = 0 THEN 1 ELSE 2 * s.len)

\* the capacity encoding/json leaves a decoded slice of n rules with: it
\* grows the slice one element at a time
JsonCap(n) == IF n <= 2 THEN n ELSE IF n <= 4 THEN 4 ELSE 8

OutcomesCfg == IF faults < MaxLoadFaults THEN {TRUE, FALSE} ELSE {TRUE}

Failures(oks) == Len(SelectSeq(oks, LAMBDA ok : ~ok))

\* getConfiguration on the heap: the rules of the snapshot are those loaded
\* from the KV store or, when that load fails, the slice of p.configuration
\* itself; the default rule is appended to whichever it is
getConfigurationShared(h, mem, rulesLoad, defLoad) ==
    LET tool == effectiveDefault(configCopy(mem), defLoad)
        last == Rule("default", "", tool)
        out  == IF rulesLoad.err
                THEN AppendSlice(h, IF mem = Nil THEN NilSlice ELSE mem.ArchivalRules, last)
                ELSE LET filtered == filterDefaultRules(rulesLoad.val)
                     IN AppendSlice(MakeSlice(h, filtered, Len(rulesLoad.val)).heap,
                                    [arr |-> Len(h) + 1, len |-> Len(filtered)], last)
    IN [heap |-> out.heap,
        config |-> [DefaultArchivalTool |-> tool, ArchivalRules |-> out.slice]]

rulesLoadOf(ok) == IF ok THEN Loaded(loadArchivalRules(KVGet(archivalRulesKey))) ELSE LoadFailed

defLoadOf(ok) ==
    IF ok THEN Loaded(loadDefaultArchivalTool(KVGet(defaultArchivalToolKey))) ELSE LoadFailed

\* a caller (the post hook, GetConfig) takes a snapshot and keeps it
GetConfigurationCall ==
    /\ Len(snaps) < MaxReads
    /\ \E okR \in OutcomesCfg, okD \in OutcomesCfg :
        LET got == getConfigurationShared(heap, memCfg, rulesLoadOf(okR), defLoadOf(okD))
        IN /\ faults + Failures(<<okR, okD>>) <= MaxLoadFaults
           /\ faults' = faults + Failures(<<okR, okD>>)
           /\ heap' = got.heap
           /\ snaps' = Append(snaps, got.config)
    /\ UNCHANGED <<kv, memCfg, upd, updates, pipeline>>

R1 == Rule("hostname", "*.a.io", "direct_download")
R2 == Rule("mimetype", "image/*", "do_nothing")
R3 == Rule("hostname", "b.io", "obelisk")

\* the users of the server, by id
Users ==
    ("admin1" :> [Roles |-> {"system_user", "system_admin"}]) @@
    ("user1" :> [Roles |-> {"system_user"}])

\* p.API.GetUser: Nil stands for the AppError of an unknown id
GetUser(userID) == IF userID \in DOMAIN Users THEN Users[userID] ELSE Nil

\* a plausible slip: the handler relies on the middleware, which only asks
\* for the header
apiStatusHeaderOnly(userID) == IF userID = "" THEN "401" ELSE "200"

\* the status the middleware and the first lines of GetConfig, UpdateConfig
\* and GetArchivalTools settle on for the header Mattermost-User-ID: "200"
\* stands for going on with the handler
apiStatus(userID) ==
    IF userID = "" THEN "401"
    ELSE LET user == GetUser(userID)
         IN IF user = Nil THEN "403"
            ELSE IF "system_admin" \notin user.Roles THEN "403"
            ELSE "200"

\* the bodies POSTed to /config, with the Mattermost-User-ID header
Requests ==
    { [UserID |-> "admin1", ArchivalRules |-> <<R1, R2, R3>>, MimeTypeMappings |-> <<>>,
       DefaultArchivalTool |-> "obelisk"],
      [UserID |-> "admin1", ArchivalRules |-> <<>>,
       MimeTypeMappings |-> <<[MimeTypePattern |-> "image/*", ArchivalTool |-> "direct_download"]>>,
       DefaultArchivalTool |-> ""],
      [UserID |-> "admin1", ArchivalRules |-> <<Rule("default", "", "wget")>>,
       MimeTypeMappings |-> <<>>, DefaultArchivalTool |-> "wget"],
      [UserID |-> "user1", ArchivalRules |-> <<R1>>, MimeTypeMappings |-> <<>>,
       DefaultArchivalTool |-> "wget"],
      [UserID |-> "", ArchivalRules |-> <<R1>>, MimeTypeMappings |-> <<>>,
       DefaultArchivalTool |-> "wget"] }

\* the rules UpdateConfig takes from a request: its own, or the migrated
\* legacy mappings
requestRules(req) ==
    IF Len(req.ArchivalRules) = 0 /\ Len(req.MimeTypeMappings) > 0
    THEN [i \in 1..Len(req.MimeTypeMappings) |->
            Rule("mimetype", req.MimeTypeMappings[i].MimeTypePattern,
                 req.MimeTypeMappings[i].ArchivalTool)]
    ELSE req.ArchivalRules

\* the capacity of that slice: make() for the migrated one, the decoder's otherwise
requestRulesCap(req) ==
    IF Len(req.ArchivalRules) = 0 /\ Len(req.MimeTypeMappings) > 0
    THEN Len(req.MimeTypeMappings) ELSE JsonCap(Len(req.ArchivalRules))

\* TRUE when the validation loop of UpdateConfig rejects no rule
requestRulesValid(rules) ==
    \A i \in 1..Len(rules) :
        /\ rules[i].Kind # ""
        /\ rules[i].Kind \in {"hostname", "mimetype"}
        /\ rules[i].Pattern # ""
        /\ rules[i].ArchivalTool # ""

\* UpdateConfig up to and including saveDefaultArchivalTool, but for the
\* record of the response
updateConfigBegin(req) ==
    /\ upd = Nil
    /\ updates < MaxUpdates
    /\ updates' = updates + 1
    /\ LET tool == IF req.DefaultArchivalTool = "" THEN "do_nothing" ELSE req.DefaultArchivalTool
           rules == requestRules(req)
       IN IF apiStatus(req.UserID) # "200" \/ ~requestRulesValid(rules)
          THEN UNCHANGED <<kv, upd, faults>>
          ELSE \E ok \in OutcomesCfg :
                /\ Charge(ok)
                /\ kv' = IF ok THEN KVSet(defaultArchivalToolKey, defaultToolBytes(tool)) ELSE kv
                /\ upd' = IF ok THEN [rules |-> rules, cap |-> requestRulesCap(req),
                                      tool |-> tool, pc |-> "saveArchivalRules",
                                      before |-> [rules |-> KVGet(archivalRulesKey),
                                                  tool |-> KVGet(defaultArchivalToolKey),
                                                  mem |-> memCfg]]
                          ELSE Nil
    /\ UNCHANGED <<memCfg, heap, snaps, files, web, posts, hooked, runs, now, changes>>

\* UpdateConfig up to and including saveDefaultArchivalTool
UpdateConfig(req) == updateConfigBegin(req) /\ UNCHANGED fn

\* UpdateConfig: saveArchivalRules
UpdateConfigSaveRules ==
    /\ upd # Nil /\ upd.pc = "saveArchivalRules"
    /\ \E ok \in OutcomesCfg :
        /\ Charge(ok)
        /\ kv' = IF ok THEN KVSet(archivalRulesKey, rulesBytes(upd.rules)) ELSE kv
        /\ upd' = IF ok THEN [upd EXCEPT !.pc = "memory"] ELSE Nil
    /\ UNCHANGED <<memCfg, heap, snaps, updates, pipeline>>

\* UpdateConfig: the update of p.configuration under the lock
UpdateConfigMemory ==
    /\ upd # Nil /\ upd.pc = "memory"
    /\ LET made == MakeSlice(heap, upd.rules, upd.cap)
       IN /\ heap' = made.heap
          /\ memCfg' = [DefaultArchivalTool |-> upd.tool, ArchivalRules |-> made.slice]
    /\ upd' = Nil
    /\ UNCHANGED <<kv, faults, snaps, updates, pipeline>>

\* the values of the custom setting LoadPluginConfiguration can deliver
RawSettings ==
    { [form |-> "empty"],
      [form |-> "garbage"],
      [form |-> "json", ArchivalRules |-> <<R1>>, DefaultArchivalTool |-> "direct_download"],
      [form |-> "json", ArchivalRules |-> <<Rule("mimetype", "", "obelisk")>>,
       DefaultArchivalTool |-> ""] }

\* OnConfigurationChange with the setting raw; okR, okD: its own KV loads,
\* okR2, okD2: those of the getConfiguration it calls, okSR, okSD: its saves
OnConfigurationChange(raw) ==
    /\ updates < MaxUpdates
    /\ updates' = updates + 1
    /\ \E okR \in OutcomesCfg, okD \in OutcomesCfg, okR2 \in OutcomesCfg, okD2 \in OutcomesCfg,
          okSR \in OutcomesCfg, okSD \in OutcomesCfg :
        LET parsed   == raw.form = "json"
            loadedD  == defLoadOf(okD)
            ownDef   == raw.form = "empty" /\ ~loadedD.err /\ loadedD.val # ""
            current  == getConfigurationShared(heap, memCfg, rulesLoadOf(okR2), defLoadOf(okD2))
            used     == IF parsed THEN <<okSR, okSD>>
                        ELSE IF raw.form = "garbage" THEN <<okR, okR2, okD2>>
                        ELSE IF ownDef THEN <<okR, okD>>
                        ELSE <<okR, okD, okR2, okD2>>
            unused   == IF parsed THEN <<okR, okD, okR2, okD2>>
                        ELSE IF raw.form = "garbage" THEN <<okD, okSR, okSD>>
                        ELSE IF ownDef THEN <<okR2, okD2, okSR, okSD>>
                        ELSE <<okSR, okSD>>
            rules    == IF parsed THEN raw.ArchivalRules
                        ELSE IF okR THEN loadArchivalRules(KVGet(archivalRulesKey)) ELSE <<>>
            tool     == IF parsed
                        THEN (IF raw.DefaultArchivalTool # "" THEN raw.DefaultArchivalTool
                              ELSE "do_nothing")
                        ELSE IF ownDef THEN loadedD.val
                        ELSE IF current.config.DefaultArchivalTool # ""
                             THEN current.config.DefaultArchivalTool ELSE "do_nothing"
            h1       == IF ~parsed /\ ~ownDef THEN current.heap ELSE heap
            filtered == filterDefaultRules(rules)
            made     == MakeSlice(h1, filtered, Len(rules))
            saved1   == IF okSR THEN KVSet(archivalRulesKey, rulesBytes(rules)) ELSE kv
            saved2   == [k \in DOMAIN saved1 \cup {defaultArchivalToolKey} |->
                            IF k = defaultArchivalToolKey THEN defaultToolBytes(tool)
                            ELSE saved1[k]]
        IN /\ Failures(unused) = 0
           /\ faults + Failures(used) <= MaxLoadFaults
           /\ faults' = faults + Failures(used)
           /\ IF parsed /\ ~validateArchivalRules(rules)
              THEN UNCHANGED <<kv, heap, memCfg>>
              ELSE /\ kv' = IF parsed THEN (IF okSD THEN saved2 ELSE saved1) ELSE kv
                   /\ IF validateArchivalRules(filtered)
                      THEN /\ heap' = made.heap
                           /\ memCfg' = [DefaultArchivalTool |-> tool, ArchivalRules |-> made.slice]
                      ELSE /\ heap' = h1
                           /\ UNCHANGED memCfg
    /\ UNCHANGED <<snaps, upd, pipeline>>

\* the state after construction: p.configuration is nil, the KV store holds
\* what an earlier activation left there
InitCfg ==
    /\ \/ kv = <<>>
       \/ \E c \in StoredConfigs :
            kv = (archivalRulesKey :> rulesBytes(c.rules)) @@
                 (defaultArchivalToolKey :> defaultToolBytes(c.tool))
    /\ memCfg = Nil
    /\ heap = <<>> /\ snaps = <<>> /\ upd = Nil /\ updates = 0
    /\ faults = 0
    /\ files = <<>>
    /\ web = [url \in URLs |-> [data |-> 1, etag |-> "", served |-> {<<1, "">>}]]
    /\ posts = <<>> /\ hooked = {} /\ runs = <<>>
    /\ now = 1 /\ changes = 0
    /\ fn = NoCall

NextCfg ==
    \/ GetConfigurationCall
    \/ \E req \in Requests : UpdateConfig(req)
    \/ UpdateConfigSaveRules
    \/ UpdateConfigMemory
    \/ \E raw \in RawSettings : OnConfigurationChange(raw)

SpecCfg == InitCfg /\ [][NextCfg]_vars

(***************************************************************************)
(* The HTTP API (api.go): the three admin endpoints, with the response     *)
(* each request gets.                                                      *)
(***************************************************************************)
\* the values of the Mattermost-User-ID header: none, a member, an id the
\* server does not know, a system admin
ApiUsers == {"", "user1", "ghost", "admin1"}

\* POST /api/v1/config up to and including saveDefaultArchivalTool; the
\* status "" stands for a handler that is still at work
ServeUpdateConfig(req) ==
    /\ updateConfigBegin(req)
    /\ fn' = [op |-> "POST /api/v1/config", UserID |-> req.UserID,
              status |-> IF apiStatus(req.UserID) # "200" THEN apiStatus(req.UserID)
                         ELSE IF ~requestRulesValid(requestRules(req)) THEN "400"
                         ELSE IF upd' = Nil THEN "500" ELSE ""]

\* GET /api/v1/config
ServeGetConfig(userID) ==
    IF apiStatus(userID) # "200"
    THEN /\ fn' = [op |-> "GET /api/v1/config", UserID |-> userID, status |-> apiStatus(userID)]
         /\ UNCHANGED <<kv, files, web, posts, hooked, runs, now, memCfg, faults, changes,
                        heap, snaps, upd, updates>>
    ELSE /\ Len(snaps) < MaxReads
         /\ \E okR \in OutcomesCfg, okD \in OutcomesCfg :
              LET got == getConfigurationShared(heap, memCfg, rulesLoadOf(okR), defLoadOf(okD))
              IN /\ faults + Failures(<<okR, okD>>) <= MaxLoadFaults
                 /\ faults' = faults + Failures(<<okR, okD>>)
                 /\ heap' = got.heap
                 /\ snaps' = Append(snaps, got.config)
                 /\ fn' = [op |-> "GET /api/v1/config", UserID |-> userID, status |-> "200",
                           body |-> [archivalRules |-> View(got.heap, got.config.ArchivalRules),
                                     defaultArchivalTool |-> got.config.DefaultArchivalTool]]
         /\ UNCHANGED <<kv, files, web, posts, hooked, runs, now, memCfg, changes, upd, updates>>

\* GET /api/v1/archival-tools, the archive processor being set up
ServeGetArchivalTools(userID) ==
    /\ fn' = IF apiStatus(userID) # "200"
             THEN [op |-> "GET /api/v1/archival-tools", UserID |-> userID,
                   status |-> apiStatus(userID)]
             ELSE [op |-> "GET /api/v1/archival-tools", UserID |-> userID, status |-> "200",
                   body |-> [tools |-> <<"direct_download", "obelisk">>]]
    /\ UNCHANGED <<kv, files, web, posts, hooked, runs, now, memCfg, faults, changes,
                   heap, snaps, upd, updates>>

NextApi ==
    \/ \E req \in Requests : ServeUpdateConfig(req)
    \/ UpdateConfigSaveRules
    \/ UpdateConfigMemory
    \/ \E userID \in ApiUsers : ServeGetConfig(userID)
    \/ \E userID \in ApiUsers : ServeGetArchivalTools(userID)

SpecApi == InitCfg /\ [][NextApi]_vars

(***************************************************************************)
(* C6.  The mandatory trailing default.                                    *)
(***************************************************************************)
\* the rule list a held snapshot shows
RulesOf(snapshot) == View(heap, snapshot.ArchivalRules)

TrailingDefault(snapshot) ==
    /\ snapshot.DefaultArchivalTool # ""
    /\ Len(RulesOf(snapshot)) > 0
    /\ LET last == RulesOf(snapshot)[Len(RulesOf(snapshot))]
       IN /\ last.Kind = "default"
          /\ last.Pattern = ""
          /\ last.ArchivalTool = snapshot.DefaultArchivalTool

\* C6: every configuration snapshot getConfiguration returned, after any
\* UpdateConfig and OnConfigurationChange calls and whatever the KV loads did,
\* has a non-empty rule list whose last entry is the catch-all rule (kind
\* "default", empty pattern) carrying the snapshot's non-empty
\* DefaultArchivalTool.
C6_TrailingDefault == \A i \in 1..Len(snaps) : TrailingDefault(snaps[i])

\* the same of the snapshot only at the moment getConfiguration returns it
C6_TrailingDefaultAtReturn ==
    [][Len(snaps') > Len(snaps) =>
        LET snapshot == snaps'[Len(snaps')]
            rules == View(heap', snapshot.ArchivalRules)
        IN /\ snapshot.DefaultArchivalTool # ""
           /\ Len(rules) > 0
           /\ rules[Len(rules)] = Rule("default", "", snapshot.DefaultArchivalTool)]_vars

(***************************************************************************)
(* Reading the log of a run.                                               *)
(***************************************************************************)
Runs == 1..Len(runs)

Done(r) == runs[r].pc = "done"

\* the run made the external call op / made it and it succeeded / failed
Did(run, op) == \E i \in 1..Len(run.calls) : run.calls[i][1] = op
DidOK(run, op) == \E i \in 1..Len(run.calls) : run.calls[i] = <<op, TRUE>>
DidFail(run, op) == \E i \in 1..Len(run.calls) : run.calls[i] = <<op, FALSE>>

\* how often the run made the external call op
Times(run, op) == Cardinality({i \in 1..Len(run.calls) : run.calls[i][1] = op})

IsSuccessReply(id) == posts[id].UserId = BotID /\ posts[id].FileIds # <<>>
IsErrorReply(id) == posts[id].UserId = BotID /\ posts[id].FileIds = <<>>

\* the run ended with its success reply in the thread
Succeeded(run) ==
    /\ run.pc = "done"
    /\ \E i \in 1..Len(run.replies) : IsSuccessReply(run.replies[i])

\* the run did nothing but look up the per-post record
NoOp(run) ==
    /\ ~Did(run, "Archive") /\ ~Did(run, "StoreArchivedFile")
    /\ run.replies = <<>> /\ run.written = <<>>
    /\ ~Did(run, "ReplyWithAttachment") /\ ~Did(run, "ReplyWithError")

(***************************************************************************)
(* C1.  Idempotence of the per-URL pipeline.                               *)
(***************************************************************************)
\* C1 as stated: when processURL runs again for a (post, url) after an
\* earlier run for the pair has succeeded, the second run is a no-op: no
\* archival tool, no upload, no reply, no KV write.
C1_SecondRunNoOp_AsStated ==
    \A r \in Runs :
        (runs[r].origin = "again" /\ Succeeded(runs[runs[r].prev])) => NoOp(runs[r])

\* C1 amended: the second run is a no-op when the earlier run succeeded and
\* its per-post record reached the KV store, and the dedup lookup of the
\* second run does not fail; the second run then ends at the dedup check.
C1_SecondRunNoOp ==
    \A r \in Runs :
        (/\ runs[r].origin = "again"
         /\ Succeeded(runs[runs[r].prev])
         /\ DidOK(runs[runs[r].prev], "StoreArchiveMetadata.KVSet")
         /\ ~DidFail(runs[r], "IsURLAlreadyArchived"))
        => /\ NoOp(runs[r])
           /\ Done(r) => runs[r].exit = "already_archived"
           /\ Len(runs[r].calls) <= 1

\* a second run, after a successful one that wrote its record, has returned
C1_Witness ==
    \E r \in Runs :
        /\ runs[r].origin = "again" /\ Done(r)
        /\ Succeeded(runs[runs[r].prev])
        /\ Did(runs[runs[r].prev], "Archive")
        /\ DidOK(runs[runs[r].prev], "StoreArchiveMetadata.KVSet")
        /\ runs[r].calls = <<<<"IsURLAlreadyArchived", TRUE>>>>

(***************************************************************************)
(* C2.  Reuse by ETag.                                                     *)
(***************************************************************************)
\* every reply of the run attaches the artifact fileID and nothing else
RepliesAttach(run, fileID) ==
    \A i \in 1..Len(run.replies) : posts[run.replies[i]].FileIds = <<fileID>>

\* C2: once a run that the per-post check did not skip has made its global
\* lookup: if the lookup returned a record, the probe succeeded, and the two
\* ETags are non-empty and equal, the run calls no archival tool and uploads
\* nothing, and what it replies with is the artifact of the record; if an
\* ETag is empty or they differ, the run does not reuse by ETag and enters
\* the MIME resolution.
C2_ReuseByETag ==
    \A r \in Runs :
        LET run == runs[r]
        IN Did(run, "GetExistingArchiveForURL") =>
            IF /\ run.existing # Nil /\ run.meta # Nil
               /\ run.existing.ETag # "" /\ run.meta.ETag # ""
               /\ run.existing.ETag = run.meta.ETag
            THEN /\ ~Did(run, "Archive") /\ ~Did(run, "DetectMimeType")
                 /\ ~Did(run, "StoreArchivedFile")
                 /\ "mime" \notin run.ev
                 /\ run.path = "etag"
                 /\ RepliesAttach(run, run.existing.FileID)
                 /\ Done(r) => Did(run, "ReplyWithAttachment")
            ELSE /\ "mime" \in run.ev
                 /\ run.path # "etag"

\* a run of another post has reused the artifact by ETag and replied with it
C2_Witness ==
    \E r \in Runs :
        /\ Done(r) /\ runs[r].path = "etag"
        /\ runs[r].existing.PostID # runs[r].post
        /\ runs[r].replies # <<>>
        /\ RepliesAttach(runs[r], runs[r].existing.FileID)
        /\ ~Did(runs[r], "Archive")

(***************************************************************************)
(* C3.  Reuse by content hash.                                             *)
(***************************************************************************)
\* the run downloaded bytes whose digest is the one of the record it read
SameContent(run) ==
    /\ DidOK(run, "Archive") /\ run.file # Nil
    /\ run.existing # Nil /\ run.existing.ContentHash # ""
    /\ run.existing.ContentHash = Sha256Hex(run.file.Data)

ProbedETag(run) == run.meta # Nil /\ run.meta.ETag # ""

\* the per-post records the run wrote point at the artifact of the record read
PerPostPointsAt(run, existing) ==
    \A i \in 1..Len(run.written) :
        run.written[i][1] = getArchiveMetadataKey(run.post, run.url) =>
            LET list == run.written[i][2].list
            IN /\ list[Len(list)].FileID = existing.FileID
               /\ list[Len(list)].ContentHash = existing.ContentHash

\* the global records the run wrote: ETag and timestamp new, artifact and
\* digest those of the record read
GlobalRefreshed(run) ==
    \E i \in 1..Len(run.written) :
        /\ run.written[i][1] = getGlobalArchiveKey(run.url)
        /\ run.written[i][2].ETag = run.meta.ETag
        /\ run.written[i][2].ArchivedAt > run.existing.ArchivedAt
        /\ run.written[i][2].FileID = run.existing.FileID
        /\ run.written[i][2].ContentHash = run.existing.ContentHash

\* C3 as stated: when the downloaded bytes have the digest of the global
\* record, the run uploads nothing, reply and per-post record point at the
\* existing artifact, and, if the probe saw a non-empty ETag, the run
\* rewrites the global record.
C3_ReuseByHash_AsStated ==
    \A r \in Runs :
        LET run == runs[r]
        IN SameContent(run) =>
            /\ ~Did(run, "StoreArchivedFile")
            /\ RepliesAttach(run, run.existing.FileID)
            /\ PerPostPointsAt(run, run.existing)
            /\ (Done(r) /\ ProbedETag(run)) => Did(run, "StoreGlobalArchiveMetadata")

\* C3 amended: when the downloaded bytes have the digest of the global record
\* the run read, the run uploads nothing, reply and per-post record point at
\* the artifact of that record, and, if the probe saw a non-empty ETag and the
\* success reply was posted, the run writes the record back with that ETag
\* and a new timestamp, the same FileID and the same ContentHash (the write
\* takes effect unless the KV store rejects it).
C3_ReuseByHash ==
    \A r \in Runs :
        LET run == runs[r]
        IN SameContent(run) =>
            /\ ~Did(run, "StoreArchivedFile")
            /\ run.path = "hash"
            /\ RepliesAttach(run, run.existing.FileID)
            /\ PerPostPointsAt(run, run.existing)
            /\ (Done(r) /\ ProbedETag(run) /\ DidOK(run, "ReplyWithAttachment")) =>
                  /\ Did(run, "StoreGlobalArchiveMetadata")
                  /\ DidOK(run, "StoreGlobalArchiveMetadata") => GlobalRefreshed(run)
            /\ (Done(r) /\ ~ProbedETag(run)) => ~Did(run, "StoreGlobalArchiveMetadata")

\* a run has reused by hash, replied, and refreshed the global record with
\* the ETag it probed
C3_Witness ==
    \E r \in Runs :
        /\ Done(r) /\ SameContent(runs[r]) /\ ProbedETag(runs[r])
        /\ runs[r].replies # <<>>
        /\ DidOK(runs[r], "StoreArchiveMetadata.KVSet")
        /\ GlobalRefreshed(runs[r])
        /\ KVGet(getGlobalArchiveKey(runs[r].url)).ETag = runs[r].meta.ETag

(***************************************************************************)
(* C4.  One upload per distinct content.                                   *)
(***************************************************************************)
\* C4 as stated: byte-identical content of a URL is uploaded at most once
C4_UploadedOnce_AsStated ==
    \A r1, r2 \in Runs :
        (/\ r1 # r2
         /\ DidOK(runs[r1], "StoreArchivedFile") /\ DidOK(runs[r2], "StoreArchivedFile")
         /\ runs[r1].url = runs[r2].url)
        => runs[r1].file.Data # runs[r2].file.Data

\* C4 amended: a run uploads a new artifact only when its global lookup
\* returned no record, or a record whose ContentHash is not the digest of the
\* bytes the run downloaded; when the downloaded bytes have the digest of the
\* record the run read, the artifact of that record is reused and nothing is
\* uploaded.
C4_UploadOnlyWhenChanged ==
    \A r \in Runs :
        LET run == runs[r]
        IN /\ Did(run, "StoreArchivedFile") =>
                \/ run.existing = Nil
                \/ run.existing.ContentHash # Sha256Hex(run.file.Data)
           /\ (DidOK(run, "Archive") /\ run.existing # Nil
               /\ run.existing.ContentHash = Sha256Hex(run.file.Data)) =>
                /\ ~Did(run, "StoreArchivedFile")
                /\ run.path = "hash"
                /\ run.md # Nil /\ run.md.FileID = run.existing.FileID

\* the content changed: a run that read the record of the old version has
\* uploaded the new one, and the store holds both
C4_Witness ==
    \E r \in Runs :
        /\ Done(r) /\ DidOK(runs[r], "StoreArchivedFile")
        /\ runs[r].existing # Nil
        /\ runs[r].existing.ContentHash # Sha256Hex(runs[r].file.Data)
        /\ Len(files) = 2 /\ files[1] # files[2]

(***************************************************************************)
(* C7.  The content hash of a record is the digest of its artifact.        *)
(***************************************************************************)
\* the record's ContentHash, when there is one, is the digest of the bytes
\* the file store holds under the record's FileID
HashOfArtifact(record) ==
    record.ContentHash # "" =>
        \E n \in 1..Len(files) :
            FileID(n) = record.FileID /\ record.ContentHash = Sha256Hex(files[n])

PerPostKeys == {k \in DOMAIN kv : HasPrefix(k, "archive_post_")}
GlobalKeys == {k \in DOMAIN kv : HasPrefix(k, "archive_url_")}

\* C7: in every reachable state every persisted record, per-post or global,
\* with a non-empty ContentHash has as ContentHash the SHA-256 of the bytes
\* stored under its FileID.
C7_ContentHashInvariant ==
    /\ \A k \in PerPostKeys : \A i \in 1..Len(kv[k].list) : HashOfArtifact(kv[k].list[i])
    /\ \A k \in GlobalKeys : HashOfArtifact(kv[k])

\* the store holds a per-post record made for a reused artifact, next to the
\* record of the post that uploaded it, and a global record with a digest
C7_Witness ==
    /\ \E k \in GlobalKeys : kv[k].ContentHash # ""
    /\ \E k1, k2 \in PerPostKeys :
        /\ k1 # k2
        /\ kv[k1].list[1].FileID = kv[k2].list[1].FileID
        /\ kv[k1].list[1].ContentHash # ""
    /\ \E r \in Runs : runs[r].path = "hash" /\ DidOK(runs[r], "StoreGlobalArchiveMetadata")

(***************************************************************************)
(* C8.  Failure notification.                                              *)
(***************************************************************************)
\* the run ended in failure: an error it reports, or a reply for a reused
\* artifact that could not be posted
TerminalFailure(run) == run.pc = "done" /\ run.exit \in {"failed", "reply_failed"}

NoRetry(run) ==
    \A i, j \in 1..Len(run.calls) : run.calls[i][1] = run.calls[j][1] => i = j

\* C8: every run that ends in failure has put exactly one reply in the thread
\* of its post and has retried no step (runs whose error reply was itself
\* rejected by the server are left aside).
C8_FailureNotifiedOnce ==
    \A r \in Runs :
        (TerminalFailure(runs[r]) /\ ~DidFail(runs[r], "ReplyWithError")) =>
            /\ Len(runs[r].replies) = 1
            /\ posts[runs[r].replies[1]].RootId = runs[r].post
            /\ NoRetry(runs[r])

(***************************************************************************)
(* C9.  Terminal states of a run.                                          *)
(***************************************************************************)
NotifiedSuccess(run) == Len(run.replies) = 1 /\ IsSuccessReply(run.replies[1])

NotifiedError(run) == Len(run.replies) = 1 /\ IsErrorReply(run.replies[1])

Stored(run) == DidOK(run, "StoreArchivedFile") \/ run.written # <<>>

SilentlySkipped(run) == run.replies = <<>> /\ ~Stored(run)

\* a fresh archive whose success reply could not be posted
StoredUnnotified(run) ==
    /\ run.replies = <<>>
    /\ DidOK(run, "StoreArchivedFile") /\ DidFail(run, "ReplyWithAttachment")

\* again and again every run started so far has returned; a run that has
\* returned stays so, hence every run eventually returns
AllTerminate == []<>(\A r \in Runs : Done(r))

\* C9 as stated, the outcomes: a run that has ended is notified-success,
\* notified-error or silently-skipped
C9_ThreeOutcomes_AsStated ==
    \A r \in Runs :
        Done(r) => \/ NotifiedSuccess(runs[r])
                   \/ NotifiedError(runs[r])
                   \/ SilentlySkipped(runs[r])

\* C9 amended: every run eventually ends, and ends in exactly one of
\* notified-success, notified-error, silently-skipped, or stored-unnotified
\* (a new artifact was uploaded and the success reply could not be posted).
C9_TerminalStates ==
    /\ AllTerminate
    /\ [](\A r \in Runs :
            Done(r) => Cardinality({o \in {"success", "error", "skipped", "unnotified"} :
                           \/ o = "success" /\ NotifiedSuccess(runs[r])
                           \/ o = "error" /\ NotifiedError(runs[r])
                           \/ o = "skipped" /\ SilentlySkipped(runs[r])
                           \/ o = "unnotified" /\ StoredUnnotified(runs[r])}) = 1)

\* a run has ended stored-unnotified, and one in one of the three other ways
C9_Witness ==
    /\ \E r \in Runs : Done(r) /\ StoredUnnotified(runs[r])
    /\ \E r \in Runs : Done(r) /\ (NotifiedSuccess(runs[r]) \/ NotifiedError(runs[r])
                                   \/ SilentlySkipped(runs[r]))

(***************************************************************************)
(* C10.  No feedback loop.                                                 *)
(***************************************************************************)
HookRunsOf(id) == {r \in Runs : runs[r].post = id /\ runs[r].origin = "hook"}

\* C10: no run is ever started for a post of the bot, although the hook is
\* called for its replies and their text holds the URL; the hook called for
\* a user's post starts as many runs as ExtractURLs finds URLs in its text.
C10_NoFeedbackLoop ==
    /\ \A r \in Runs : posts[runs[r].post].UserId # BotID
    /\ \A id \in hooked :
        Cardinality(HookRunsOf(id)) =
            IF posts[id].UserId = BotID THEN 0 ELSE Len(UserPostURLs[id])

\* the hook has been called for a reply of the bot that names a URL, and for
\* a user's post with two URLs
C10_Witness ==
    /\ \E id \in hooked :
        /\ posts[id].UserId = BotID
        /\ ExtractURLs(posts[id].Message) # <<>>
    /\ \E id \in hooked : Cardinality(HookRunsOf(id)) = 2

(***************************************************************************)
(* C11.  The lost update.                                                  *)
(***************************************************************************)
\* the last KV write of the run: <<key, value>>
LastWrite(run) == run.written[Len(run.written)]

\* the global record the run wrote
GlobalWriteOf(run) ==
    LET i == CHOOSE i \in 1..Len(run.written) : run.written[i][1] = getGlobalArchiveKey(run.url)
    IN run.written[i][2]

WroteGlobal(run) ==
    \E i \in 1..Len(run.written) : run.written[i][1] = getGlobalArchiveKey(run.url)

\* C11: the writes of the persistence layer (the per-post list written back
\* in full, the global record) carry no lock and no version check: a write
\* that succeeds puts its value under the key whatever another pipeline has
\* put there since this one read.  So with two pipelines archiving the same
\* URL at once there is an interleaving in which the update of one is
\* overwritten by a write of the other that rests on a stale read (reached
\* in C11_Witness).
C11_WritesUnconditional ==
    [][\A r \in Runs :
        Len(runs'[r].written) > Len(runs[r].written) =>
            /\ LastWrite(runs'[r])[1] \in DOMAIN kv'
            /\ kv'[LastWrite(runs'[r])[1]] = LastWrite(runs'[r])[2]]_vars

\* two pipelines of two posts archived the same URL; both looked up the
\* global record before either wrote it, both wrote it, and the record of
\* the first is gone: the key holds the record of the second
C11_Witness ==
    \E r1, r2 \in Runs :
        /\ r1 # r2 /\ runs[r1].url = runs[r2].url /\ runs[r1].post # runs[r2].post
        /\ Done(r1) /\ Done(r2)
        /\ runs[r1].existing = Nil /\ runs[r2].existing = Nil
        /\ DidOK(runs[r1], "GetExistingArchiveForURL")
        /\ DidOK(runs[r2], "GetExistingArchiveForURL")
        /\ WroteGlobal(runs[r1]) /\ WroteGlobal(runs[r2])
        /\ GlobalWriteOf(runs[r1]).FileID # GlobalWriteOf(runs[r2]).FileID
        /\ KVGet(getGlobalArchiveKey(runs[r1].url)) = GlobalWriteOf(runs[r2])

(***************************************************************************)
(* C12.  Per-post lists are append-only.                                   *)
(***************************************************************************)
IsPrefix(s, t) == Len(s) <= Len(t) /\ SubSeq(t, 1, Len(s)) = s

\* the run's write of its per-post list succeeds in this step
PerPostWritten(r) ==
    /\ Len(runs'[r].calls) > Len(runs[r].calls)
    /\ runs'[r].calls[Len(runs'[r].calls)] = <<"StoreArchiveMetadata.KVSet", TRUE>>

GlobalWritten(r) ==
    /\ Len(runs'[r].calls) > Len(runs[r].calls)
    /\ runs'[r].calls[Len(runs'[r].calls)] = <<"StoreGlobalArchiveMetadata", TRUE>>

\* the run returns in this step
Returns(r) == runs[r].pc # "done" /\ runs'[r].pc = "done"

\* the record describes the version the run archived: its URL, the artifact
\* the run replied with, the digest of the bytes the run downloaded, and the
\* ETag the run probed, if any
DescribesVersionOf(record, run) ==
    /\ record.OriginalURL = run.url
    /\ record.FileID = run.md.FileID
    /\ record.ContentHash = Sha256Hex(run.file.Data)
    /\ (run.meta # Nil /\ run.meta.ETag # "") => record.ETag = run.meta.ETag

\* C13 as stated: every run that stored a new artifact, and every run that
\* reused one because the hash of its download matched, has overwritten the
\* global record of its URL (runs whose KV write was rejected left aside).
C13_GlobalLifecycle_AsStated ==
    \A r \in Runs :
        (/\ Done(r) /\ runs[r].path \in {"new", "hash"}
         /\ ~DidFail(runs[r], "StoreGlobalArchiveMetadata"))
        => WroteGlobal(runs[r])

\* C13 amended: a URL has at most one global record, a single record under
\* the key of the URL, never a list.  Every run that stored a new artifact
\* writes it before it returns; a run that reused by content hash writes it
\* exactly when its probe saw a non-empty ETag and its success reply was
\* posted.  Each such write that the KV store accepts replaces the record,
\* which then describes that run's version.
C13_GlobalLifecycle ==
    [][/\ \A k \in GlobalKeys :
            /\ k \in DOMAIN kv'
            /\ "list" \notin DOMAIN kv[k]
            /\ k = getGlobalArchiveKey(kv[k].OriginalURL)
       /\ \A r \in Runs :
            /\ GlobalWritten(r) =>
                    /\ runs[r].path \in {"new", "hash"}
                    /\ DescribesVersionOf(kv'[getGlobalArchiveKey(runs[r].url)], runs[r])
            /\ (Returns(r) /\ runs[r].path = "new") =>
                    Times(runs'[r], "StoreGlobalArchiveMetadata") = 1
            /\ (Returns(r) /\ runs[r].path = "hash") =>
                    Times(runs'[r], "StoreGlobalArchiveMetadata") =
                        IF ProbedETag(runs[r]) /\ DidOK(runs'[r], "ReplyWithAttachment")
                        THEN 1 ELSE 0]_vars

\* the global record of a URL was overwritten: a run that read the record of
\* an older version stored a new artifact, and the key now holds its record
C13_Witness ==
    \E r \in Runs :
        /\ Done(r) /\ runs[r].path = "new" /\ runs[r].existing # Nil
        /\ DidOK(runs[r], "StoreGlobalArchiveMetadata")
        /\ KVGet(getGlobalArchiveKey(runs[r].url)) = runs[r].md
        /\ runs[r].md.FileID # runs[r].existing.FileID
        /\ Cardinality({k \in GlobalKeys : kv[k].OriginalURL = runs[r].url}) = 1

(***************************************************************************)
(* C14.  The tolerated partial failure.                                    *)
(***************************************************************************)
\* a write of metadata, per-post or global, failed in the run
PersistFailed(run) ==
    \/ DidFail(run, "StoreArchiveMetadata.KVGet")
    \/ DidFail(run, "StoreArchiveMetadata.KVSet")
    \/ DidFail(run, "StoreGlobalArchiveMetadata")

\* the artifact the run replied with is in the file store
ArtifactKept(run) ==
    \E n \in 1..Len(files) :
        /\ FileID(n) = run.md.FileID
        /\ run.file # Nil => files[n] = run.file.Data

\* a call of the run fails in this step
FailsNow(r, op) ==
    /\ Len(runs'[r].calls) > Len(runs[r].calls)
    /\ runs'[r].calls[Len(runs'[r].calls)] = <<op, FALSE>>

\* C14: when a write of metadata (per-post or global) fails after the success
\* reply was posted, the run posts no error reply, its one reply is the
\* success reply, the artifact stays in the file store and the run ends as
\* delivered; the failed write changes nothing in the KV store, and no step
\* removes or changes a stored artifact or removes a stored record, so all
\* that is missing is the bookkeeping a later run would have deduplicated on.
C14_PartialFailureTolerated ==
    [][/\ \A r \in Runs :
            (DidOK(runs[r], "ReplyWithAttachment") /\ PersistFailed(runs[r])) =>
                /\ ~Did(runs[r], "ReplyWithError")
                /\ runs[r].pc # "errReply"
                /\ Len(runs[r].replies) = 1 /\ IsSuccessReply(runs[r].replies[1])
                /\ ArtifactKept(runs[r])
                /\ Done(r) => runs[r].exit \in {"archived", "reused_etag", "reused_hash"}
       /\ \A r \in Runs :
            (\/ FailsNow(r, "StoreArchiveMetadata.KVGet")
             \/ FailsNow(r, "StoreArchiveMetadata.KVSet")
             \/ FailsNow(r, "StoreGlobalArchiveMetadata")) => kv' = kv
       /\ IsPrefix(files, files')
       /\ \A k \in DOMAIN kv : k \in DOMAIN kv']_vars

\* a run uploaded, replied, failed to write its per-post record, wrote the
\* global one and returned as delivered
C14_Witness ==
    \E r \in Runs :
        /\ Done(r) /\ runs[r].path = "new" /\ runs[r].exit = "archived"
        /\ DidOK(runs[r], "ReplyWithAttachment")
        /\ DidFail(runs[r], "StoreArchiveMetadata.KVSet")
        /\ getArchiveMetadataKey(runs[r].post, runs[r].url) \notin DOMAIN kv
        /\ ArtifactKept(runs[r])
        /\ Len(runs[r].replies) = 1

(***************************************************************************)
(* C15.  A failed probe is not fatal.                                      *)
(***************************************************************************)
\* C15: a run whose probe (GetURLMetadata) failed goes on without metadata:
\* it does not end at the probe and posts nothing for it, it cannot reuse
\* by ETag, it makes the full detection pass (DetectMimeType) right after
\* the global lookup, and it gives up on the MIME type, with an error reply,
\* exactly when that pass fails too; when the pass succeeds the run resolves
\* a tool for the detected type.
C15_ProbeFailureNonFatal ==
    \A r \in Runs :
        LET run == runs[r]
        IN DidFail(run, "GetURLMetadata") =>
            /\ run.meta = Nil
            /\ run.path # "etag"
            /\ run.pc = "lookup" <=> ~Did(run, "GetExistingArchiveForURL")
            /\ (Did(run, "GetExistingArchiveForURL") /\ ~Did(run, "DetectMimeType")) =>
                    (run.pc = "detect" /\ run.replies = <<>>)
            /\ ~Did(run, "DetectMimeType") => (~Did(run, "ReplyWithError") /\ run.pc # "errReply")
            /\ Done(r) => Times(run, "DetectMimeType") = 1
            /\ run.err = "failed to detect MIME type" <=> DidFail(run, "DetectMimeType")
            /\ DidFail(run, "DetectMimeType") =>
                    (run.pc = "errReply" \/ Did(run, "ReplyWithError"))
            /\ DidOK(run, "DetectMimeType") =>
                    (run.mimeType # "" /\ run.err # "failed to get URL metadata")

\* a run whose probe failed detected the type, downloaded and replied with
\* the artifact
C15_Witness ==
    \E r \in Runs :
        /\ Done(r) /\ DidFail(runs[r], "GetURLMetadata")
        /\ DidOK(runs[r], "DetectMimeType") /\ DidOK(runs[r], "Archive")
        /\ Succeeded(runs[r])

\* a run whose probe and detection both failed replied with the error
C15_BothFailed ==
    \E r \in Runs :
        /\ Done(r) /\ DidFail(runs[r], "GetURLMetadata")
        /\ DidFail(runs[r], "DetectMimeType")
        /\ Len(runs[r].replies) = 1 /\ IsErrorReply(runs[r].replies[1])

(***************************************************************************)
(* C16.  The do-nothing sentinel.                                          *)
(***************************************************************************)
\* no rule of the list holds for the URL and the MIME type
NoRuleMatches(urlStr, mimeType, rules) ==
    \A i \in 1..Len(rules) : ~ruleMatches(hostnameOf(urlStr), mimeType, rules[i])

\* on every rule list that is exhausted without a match, the empty list
\* among them, findArchivalTool returns the sentinel
FallbackIsDoNothing ==
    \A urlStr \in CallURLs, mimeType \in CallMimeTypes, rules \in RuleLists :
        NoRuleMatches(urlStr, mimeType, rules) =>
            findArchivalTool(urlStr, mimeType,
                             [DefaultArchivalTool |-> "", ArchivalRules |-> rules]) = "do_nothing"

\* the same, read off the calls on hand-built configurations
C16_FallbackCalls ==
    (fn.op = "findArchivalTool on rules" /\ Matching = {}) => fn.result = "do_nothing"

\* a call on two rules none of which matches
C16_FallbackCalled ==
    /\ fn.op = "findArchivalTool on rules"
    /\ Len(fn.config.ArchivalRules) = 2 /\ Matching = {}
    /\ fn.result = "do_nothing"

\* C16: findArchivalTool returns "do_nothing" when the rule list is exhausted
\* without a match, and a run whose resolved tool is "do_nothing" has ended
\* at once and silently: it called no archival tool, uploaded nothing,
\* posted no reply and wrote no KV record.
C16_DoNothingSilent ==
    /\ FallbackIsDoNothing
    /\ \A r \in Runs :
        LET run == runs[r]
        IN /\ run.toolName = "do_nothing" =>
                /\ run.pc = "done" /\ run.exit = "do_nothing"
                /\ NoOp(run)
                /\ ~Did(run, "StoreArchiveMetadata.KVGet") /\ ~Did(run, "StoreArchiveMetadata.KVSet")
                /\ ~Did(run, "StoreGlobalArchiveMetadata")
                /\ run.calls[Len(run.calls)][1] \in {"GetExistingArchiveForURL", "DetectMimeType"}
           /\ run.exit = "do_nothing" => run.toolName = "do_nothing"

\* a run that resolved the sentinel from the default tool, no rule matching
C16_Witness ==
    \E r \in Runs :
        /\ Done(r) /\ runs[r].exit = "do_nothing"
        /\ runs[r].config.DefaultArchivalTool = "do_nothing"
        /\ NoRuleMatches(runs[r].url, runs[r].mimeType,
                         SubSeq(runs[r].config.ArchivalRules, 1,
                                Len(runs[r].config.ArchivalRules) - 1))
        /\ DidOK(runs[r], "GetURLMetadata")
        /\ \A id \in DOMAIN posts : posts[id].UserId # BotID

\* a run that resolved the sentinel from a matching rule
C16_ByRule ==
    \E r \in Runs :
        /\ Done(r) /\ runs[r].exit = "do_nothing"
        /\ runs[r].config.DefaultArchivalTool # "do_nothing"
        /\ \E i \in 1..Len(runs[r].config.ArchivalRules) :
              /\ runs[r].config.ArchivalRules[i].Kind = "mimetype"
              /\ runs[r].config.ArchivalRules[i].ArchivalTool = "do_nothing"

(***************************************************************************)
(* C17.  Oversized content.                                                *)
(***************************************************************************)
\* body lengths around the limit
DownloadSizes == {0, 1, MaxFileSize - 1, MaxFileSize, MaxFileSize + 1, MaxFileSize + 2}

\* the responses DirectDownload.Archive can get: a status, a body of n bytes
\* announced by Content-Length or not, read to its end or not
DownloadResponses ==
    {[StatusCode |-> st, ContentLength |-> IF announced THEN n ELSE -1,
      BodySize |-> n, ReadErr |-> readErr, Data |-> 1] :
        st \in {200, 404}, announced \in BOOLEAN, n \in DownloadSizes, readErr \in BOOLEAN}

\* the response came with a 2xx status and its body could be read
Delivered(resp) == resp.StatusCode \in 200..299 /\ ~resp.ReadErr

\* the rule of the sizes, over every response of DownloadResponses
DownloadSizeRule ==
    \A resp \in DownloadResponses :
        LET res == DirectDownloadArchive(U1, "", resp)
        IN /\ resp.BodySize > MaxFileSize =>
                /\ res.err # "" /\ res.file = Nil
                /\ Delivered(resp) => res.err = TooLarge
           /\ resp.BodySize <= MaxFileSize =>
                /\ res.err # TooLarge
                /\ Delivered(resp) => (res.err = "" /\ res.file.Size = resp.BodySize)

\* C17: DirectDownload.Archive fails for every response whose body is longer
\* than MaxFileSize, from MaxFileSize + 1 bytes on and with the too-large
\* error whenever the response was delivered, with or without a
\* Content-Length header, and never fails for the size of a body of at most
\* MaxFileSize bytes; a run whose download failed so uploaded no artifact and
\* wrote no per-post and no global record.
C17_OversizedContent ==
    /\ DownloadSizeRule
    /\ \A r \in Runs :
        LET run == runs[r]
        IN /\ "too large" \in run.ev =>
                /\ run.toolName = "direct_download" /\ DidFail(run, "Archive")
                /\ run.file = Nil /\ run.md = Nil
                /\ ~Did(run, "StoreArchivedFile") /\ ~Did(run, "ReplyWithAttachment")
                /\ ~Did(run, "StoreArchiveMetadata.KVGet")
                /\ ~Did(run, "StoreArchiveMetadata.KVSet")
                /\ ~Did(run, "StoreGlobalArchiveMetadata")
                /\ run.written = <<>>
                /\ run.pc \in {"errReply", "done"}
                /\ Done(r) => Times(run, "ReplyWithError") = 1
           /\ (run.toolName = "direct_download" /\ DidOK(run, "Archive")) =>
                (run.file.Size <= MaxFileSize /\ "too large" \notin run.ev)

\* a run found the file grown beyond the limit after an earlier run had
\* archived it, and replied with the error; the records are those of the
\* earlier run
C17_Witness ==
    \E r, q \in Runs :
        /\ Done(r) /\ "too large" \in runs[r].ev
        /\ Len(runs[r].replies) = 1 /\ IsErrorReply(runs[r].replies[1])
        /\ runs[q].url = runs[r].url /\ Succeeded(runs[q]) /\ WroteGlobal(runs[q])
        /\ Len(files) = 1
        /\ kv[getGlobalArchiveKey(runs[r].url)] = GlobalWriteOf(runs[q])

\* a run downloaded a file of exactly MaxFileSize bytes
C17_AtLimit ==
    \E r \in Runs :
        /\ runs[r].toolName = "direct_download" /\ DidOK(runs[r], "Archive")
        /\ runs[r].file.Size = MaxFileSize

(***************************************************************************)
(* The storage service called directly (storage.go): StoreArchivedFile,    *)
(* StoreArchiveMetadata, then the record read back under the per-post key  *)
(* and IsURLAlreadyArchived.                                               *)
(***************************************************************************)
\* uploads per behaviour
MaxStores == 2

StorePosts == {"p1", "p2"}

\* the files an archival tool can hand over: the name is what extractFilename
\* takes from the URL path or, byte for byte, from the header
\* Content-Disposition, where a server may send a name in Latin-1
StoreFiles ==
    {[Filename |-> name, Data |-> data, MimeType |-> mimeType, Size |-> SizeOf(data)] :
        name \in {"p.png", "r#sum#.pdf"}, data \in Contents,
        mimeType \in {"image/png", "text/html"}}

\* the plugin is active, the posts exist, nothing is archived
InitStore ==
    /\ kv = <<>> /\ memCfg = Nil
    /\ files = <<>>
    /\ web = [url \in URLs |-> [data |-> 1, etag |-> "", served |-> {<<1, "">>}]]
    /\ posts = [id \in StorePosts |->
                  [UserId |-> "user", RootId |-> "", Message |-> Message(id), FileIds |-> <<>>]]
    /\ hooked = {} /\ runs = <<>>
    /\ now = 1 /\ faults = 0 /\ changes = 0
    /\ fn = NoCall
    /\ heap = <<>> /\ snaps = <<>> /\ upd = Nil /\ updates = 0

\* the call before has returned and no StoreArchiveMetadata is due
Returned == IF fn.op \in {"none", "IsURLAlreadyArchived"} THEN TRUE ELSE fn.err

\* StoreArchivedFile(postID, url, f, toolName): GetPost and UploadFile, then
\* the record with the hash of the bytes
CallStoreArchivedFile(postID, url, f, toolName) ==
    /\ Returned /\ Len(files) < MaxStores
    /\ \E ok \in Outcomes :
        /\ Charge(ok)
        /\ files' = IF ok THEN Append(files, f.Data) ELSE files
        /\ fn' = [op |-> "StoreArchivedFile", postID |-> postID, url |-> url, f |-> f,
                  err |-> ~ok,
                  md |-> IF ok THEN NewMetadata(postID, url, f, toolName,
                                                FileID(Len(files) + 1), now)
                         ELSE Nil,
                  list |-> <<>>, archived |-> FALSE]
    /\ UNCHANGED <<kv, web, posts, hooked, runs, now, memCfg, changes,
                   heap, snaps, upd, updates>>

\* StoreArchiveMetadata(metadata) on the record StoreArchivedFile returned:
\* KVGet, the record appended to the decoded list, KVSet of the encoded list
CallStoreArchiveMetadata ==
    /\ fn.op = "StoreArchivedFile" /\ ~fn.err
    /\ \E ok \in Outcomes :
        LET key == getArchiveMetadataKey(fn.md.PostID, fn.md.OriginalURL)
            value == marshalList(metadataList(unmarshalList(KVGet(key)), fn.md))
        IN /\ Charge(ok)
           /\ kv' = IF ok THEN KVSet(key, value) ELSE kv
           /\ fn' = [fn EXCEPT !.op = "StoreArchiveMetadata", !.err = ~ok]
    /\ UNCHANGED <<files, web, posts, hooked, runs, now, memCfg, changes,
                   heap, snaps, upd, updates>>

\* IsURLAlreadyArchived(postID, url) after the two: the list under the
\* per-post key is read and decoded, and searched for the URL
CallIsURLAlreadyArchived ==
    /\ fn.op = "StoreArchiveMetadata" /\ ~fn.err
    /\ \E ok \in Outcomes :
        LET list == unmarshalList(KVGet(getArchiveMetadataKey(fn.postID, fn.url)))
        IN /\ Charge(ok)
           /\ fn' = [fn EXCEPT !.op = "IsURLAlreadyArchived", !.err = ~ok,
                               !.list = IF ok THEN list ELSE <<>>,
                               !.archived = ok /\ listHasURL(list, fn.url)]
    /\ UNCHANGED <<kv, files, web, posts, hooked, runs, now, memCfg, changes,
                   heap, snaps, upd, updates>>

NextStore ==
    \/ \E postID \in StorePosts, url \in URLs, f \in StoreFiles :
          CallStoreArchivedFile(postID, url, f, "direct_download")
    \/ CallStoreArchiveMetadata
    \/ CallIsURLAlreadyArchived

SpecStore == InitStore /\ [][NextStore]_vars

(***************************************************************************)
(* C18.  Store/retrieve round trip.                                        *)
(***************************************************************************)
\* the three calls have returned without an error
ReadBack == fn.op = "IsURLAlreadyArchived" /\ ~fn.err

\* the record md carries the fields of the file f
CarriesFile(md, f) ==
    /\ md.Size = f.Size /\ md.MimeType = f.MimeType /\ md.Filename = f.Filename
    /\ md.ContentHash = Sha256Hex(f.Data)

\* the strings of f are valid UTF-8
ValidUTF8(f) == Index(f.Filename, "#") = 0 /\ Index(f.MimeType, "#") = 0

\* C18: for every ArchivedFile f, after StoreArchivedFile(postId, url, f, tool)
\* and StoreArchiveMetadata, the list read back under the per-post key of
\* (postId, url) holds a record whose size, mimeType and filename are those of
\* f and whose contentHash is sha256(f.bytes), and
\* IsURLAlreadyArchived(postId, url) is true.
C18_RoundTrip ==
    ReadBack =>
        /\ \E i \in 1..Len(fn.list) : CarriesFile(fn.list[i], fn.f)
        /\ fn.archived

\* what holds: the round trip of a file whose strings are valid UTF-8, and
\* for every file all of it but the name
C18_RoundTripOfValidUTF8 ==
    ReadBack =>
        /\ fn.archived
        /\ LET last == fn.list[Len(fn.list)]
           IN /\ last.Size = fn.f.Size /\ last.ContentHash = Sha256Hex(fn.f.Data)
              /\ last.PostID = fn.postID /\ last.OriginalURL = fn.url
              /\ last.Filename = jsonString(fn.f.Filename)
              /\ ValidUTF8(fn.f) => CarriesFile(last, fn.f)

\* a second record was appended to a list and read back
C18_SecondRecordReadBack ==
    /\ ReadBack /\ Len(fn.list) = 2 /\ ValidUTF8(fn.f)
    /\ CarriesFile(fn.list[2], fn.f)

(***************************************************************************)
(* The pattern matchers and the downloader called directly                 *)
(* (link_extractor.go, direct_download.go).                                *)
(***************************************************************************)
CallHostnames ==
    {"example.com", "www.example.com", "a.b.example.com", "otherexample.com", "com",
     "Example.COM", "WWW.EXAMPLE.COM", "www.Example.com", "example.org", "",
     ".example.com", "*.example.com", "example.com.evil.io"}

CallHostPatterns ==
    {"example.com", "*.example.com", "*.EXAMPLE.COM", "*.", "", "*", "*.com",
     "*example.com", ".example.com", "*.*.example.com", "www.example.com"}

CallMimes ==
    {"image/png", "image/jpeg", "image", "image/", "application/image", "", "IMAGE/PNG",
     "imagex/png", "text/html", "/png", "image/svg+xml", "a/b/c"}

CallMimePatterns ==
    {"image/*", "image/png", "image", "*/*", "/*", "*", "", "IMAGE/*", "image/**", "a/b/*"}

CallHostnameMatches(hostname, pattern) ==
    /\ fn' = [op |-> "hostnameMatches", hostname |-> hostname, pattern |-> pattern,
              result |-> hostnameMatches(hostname, pattern)]
    /\ UNCHANGED <<kv, files, web, posts, hooked, runs, now, memCfg, faults, changes,
                   heap, snaps, upd, updates>>

CallMimeTypeMatches(mimeType, pattern) ==
    /\ fn' = [op |-> "mimeTypeMatches", mimeType |-> mimeType, pattern |-> pattern,
              result |-> mimeTypeMatches(mimeType, pattern)]
    /\ UNCHANGED <<kv, files, web, posts, hooked, runs, now, memCfg, faults, changes,
                   heap, snaps, upd, updates>>

\* DirectDownload.Archive on the response resp
CallDirectDownloadArchive(url, mimeType, resp) ==
    /\ fn' = [op |-> "Archive", url |-> url, mimeType |-> mimeType, resp |-> resp,
              result |-> DirectDownloadArchive(url, mimeType, resp)]
    /\ UNCHANGED <<kv, files, web, posts, hooked, runs, now, memCfg, faults, changes,
                   heap, snaps, upd, updates>>

\* ruleMatches(hostname, mimeType, rule)
CallRuleMatches(hostname, mimeType, rule) ==
    /\ fn' = [op |-> "ruleMatches", hostname |-> hostname, mimeType |-> mimeType,
              rule |-> rule, result |-> ruleMatches(hostname, mimeType, rule)]
    /\ UNCHANGED <<kv, files, web, posts, hooked, runs, now, memCfg, faults, changes,
                   heap, snaps, upd, updates>>

\* processURL(postID, url, config) on a configuration built by hand, from its
\* entry up to the choice of the tool: the per-post check, the probe and the
\* global lookup find nothing
CallSelectTool(url, mimeType, tool) ==
    LET config == [DefaultArchivalTool |-> tool, ArchivalRules |-> <<Rule("default", "", tool)>>]
    IN /\ fn' = [op |-> "selectTool", url |-> url, mimeType |-> mimeType, tool |-> tool,
                 result |-> selectTool(NewRun("p1", url, config, "hook", 0), mimeType)]
       /\ UNCHANGED <<kv, files, web, posts, hooked, runs, now, memCfg, faults, changes,
                      heap, snaps, upd, updates>>

\* tokens per message
MaxTokens == 3

\* the tokens of the messages ExtractURLs is called on: bare URLs and link
\* targets, with punctuation after them, of another scheme, without a host
CallTokens ==
    { Word("see"), Bare(U2), Bare(U1 \o ","), Bare("http://"),
      Md(U1), Md(U2 \o "."), Md("ftp://c.io/f"), Md("label") }

CallMessages == UNION {[1..n -> CallTokens] : n \in 0..MaxTokens}

\* the kinds and patterns of the rules ruleMatches is called on
CallKinds == {"hostname", "mimetype", "default", "unknown", ""}
CallRulePatterns == {"", "example.com", "*.example.com", "application/pdf", "image/*"}

NextCalls ==
    \/ \E hostname \in {"example.com", "www.example.com", "other.com", ""},
          mimeType \in {"application/pdf", "image/png", ""},
          kind \in CallKinds, pattern \in CallRulePatterns :
          CallRuleMatches(hostname, mimeType, Rule(kind, pattern, "direct_download"))
    \/ \E hostname \in CallHostnames, pattern \in CallHostPatterns :
          CallHostnameMatches(hostname, pattern)
    \/ \E mimeType \in CallMimes, pattern \in CallMimePatterns :
          CallMimeTypeMatches(mimeType, pattern)
    \/ \E resp \in DownloadResponses : CallDirectDownloadArchive(U1, "text/html", resp)
    \/ \E url \in URLs, mimeType \in {"text/html", "image/png"},
          tool \in {"", "wget", "do_nothing", "direct_download", "obelisk"} :
          CallSelectTool(url, mimeType, tool)

SpecCalls == InitRules /\ [][NextCalls]_vars

(***************************************************************************)
(* The link extractor called directly on the text of a message.            *)
(***************************************************************************)
\* a message has been written and is about to be handed to ExtractURLs
InitExtract ==
    /\ kv = <<>> /\ memCfg = Nil
    /\ files = <<>>
    /\ web = [url \in URLs |-> [data |-> 1, etag |-> "", served |-> {<<1, "">>}]]
    /\ posts = <<>> /\ hooked = {} /\ runs = <<>>
    /\ now = 1 /\ faults = 0 /\ changes = 0
    /\ fn \in {[op |-> "message", message |-> message] : message \in CallMessages}
    /\ heap = <<>> /\ snaps = <<>> /\ upd = Nil /\ updates = 0

\* ExtractURLs(message)
CallExtractURLs ==
    /\ fn.op = "message"
    /\ fn' = [op |-> "ExtractURLs", message |-> fn.message, result |-> ExtractURLs(fn.message)]
    /\ UNCHANGED <<kv, files, web, posts, hooked, runs, now, memCfg, faults, changes,
                   heap, snaps, upd, updates>>

SpecExtract == InitExtract /\ [][CallExtractURLs]_vars

(***************************************************************************)
(* The classification of errors (thread_reply.go), called directly on the  *)
(* errors processURL hands to ReplyWithError.                              *)
(***************************************************************************)
UpperCase == "ABCDEFGHIJKLMNOPQRSTUVWXYZ"
LowerCase == "abcdefghijklmnopqrstuvwxyz"

\* strings.ToLower on one character of the texts of the model (ASCII)
ToLower(c) ==
    LET i == Index(UpperCase, c) IN IF i = 0 THEN c ELSE SubSeq(LowerCase, i, i)

\* contains(s, substr): the substring test without regard to case, that is
\* strings.Contains on the two strings in lower case
contains(s, substr) ==
    /\ Len(s) >= Len(substr)
    /\ \/ s = substr
       \/ \E i \in 1..(Len(s) - Len(substr) + 1) :
            \A j \in 1..Len(substr) :
                ToLower(SubSeq(s, i + j - 1, i + j - 1)) = ToLower(SubSeq(substr, j, j))

\* extractErrorReason on err.Error(): the first test that holds decides
extractErrorReason(errStr) ==
    IF contains(errStr, "timeout") \/ contains(errStr, "Timeout")
    THEN "Timeout while fetching URL"
    ELSE IF contains(errStr, "invalid URL") \/ contains(errStr, "Invalid URL")
    THEN "Invalid URL format"
    ELSE IF contains(errStr, "download") /\ contains(errStr, "failed")
    THEN "Failed to download file"
    ELSE IF contains(errStr, "store") /\ contains(errStr, "failed")
    THEN "Failed to store file"
    ELSE IF contains(errStr, "MIME type") \/ contains(errStr, "content type")
    THEN "Could not determine content type"
    ELSE IF contains(errStr, "too large") \/ contains(errStr, "exceeds maximum")
    THEN "File too large"
    ELSE IF contains(errStr, "status") /\ contains(errStr, "4")
    THEN "HTTP client error"
    ELSE IF contains(errStr, "status") /\ contains(errStr, "5")
    THEN "HTTP server error"
    ELSE "Unknown error"

\* the statuses of the responses that DirectDownload.Archive refuses
ClientErrorStatuses == 400..417
ServerErrorStatuses == 500..511

\* the URLs of the failing requests
FailingURLs ==
    URLs \cup {"https://a.io/x", "https://store.a.io/x", "https://a.io/download/b.pdf",
               "https://a.io/restore", "https://a.io/timeout.html", "https://a.io/404"}

\* what url.Error adds to the error of a request that got no response (the
\* quotes Go puts around the URL are left out)
TimeoutDetail == "context deadline exceeded (Client.Timeout exceeded while awaiting headers)"
RefusedDetail == "dial tcp 10.0.0.1:443: connect: connection refused"

\* the errors processURL hands to ReplyWithError, with the cause of each:
\* DirectDownload.Archive (direct_download.go 60-87), StoreArchivedFile
\* (storage.go 55-62, the text of the AppError being the server's),
\* DetectMimeType (obelisk.go 209-222, 334-367)
PipelineErrors ==
    {[cause |-> "http 4xx", err |-> "download failed with status " \o ToString(n)] :
        n \in ClientErrorStatuses}
    \cup {[cause |-> "http 5xx", err |-> "download failed with status " \o ToString(n)] :
        n \in ServerErrorStatuses}
    \cup {[cause |-> "too large",
           err |-> "file size " \o ToString(n) \o " exceeds maximum allowed size "
                   \o ToString(MaxFileSize)] : n \in {MaxFileSize + 1, 2 * MaxFileSize}}
    \cup {[cause |-> "too large",
           err |-> "file size exceeds maximum allowed size " \o ToString(MaxFileSize)]}
    \cup {[cause |-> "upload", err |-> "failed to upload file to Mattermost: " \o appErr] :
        appErr \in {"UploadFile: Unable to upload file., ",
                    "UploadFile: Unable to upload file., write: no space left on device"}}
    \cup {[cause |-> "mime",
           err |-> "failed to detect MIME type for URL: " \o url
                   \o ": no Content-Type header and unable to detect from content"] :
        url \in FailingURLs}
    \cup {[cause |-> "timeout",
           err |-> "failed to download file: Get " \o url \o ": " \o TimeoutDetail] :
        url \in FailingURLs}
    \cup {[cause |-> "connection",
           err |-> "failed to download file: Get " \o url \o ": " \o RefusedDetail] :
        url \in FailingURLs}

InitReason ==
    /\ kv = <<>> /\ memCfg = Nil
    /\ files = <<>>
    /\ web = [url \in URLs |-> [data |-> 1, etag |-> "", served |-> {<<1, "">>}]]
    /\ posts = <<>> /\ hooked = {} /\ runs = <<>>
    /\ now = 1 /\ faults = 0 /\ changes = 0
    /\ fn \in {[op |-> "error", cause |-> e.cause, err |-> e.err] : e \in PipelineErrors}
    /\ heap = <<>> /\ snaps = <<>> /\ upd = Nil /\ updates = 0

\* extractErrorReason(err), as ReplyWithError calls it
CallExtractErrorReason ==
    /\ fn.op = "error"
    /\ fn' = [op |-> "extractErrorReason", cause |-> fn.cause, err |-> fn.err,
              result |-> extractErrorReason(fn.err)]
    /\ UNCHANGED <<kv, files, web, posts, hooked, runs, now, memCfg, faults, changes,
                   heap, snaps, upd, updates>>

SpecReason == InitReason /\ [][CallExtractErrorReason]_vars

\* the rule of the sizes, read off the calls
C17_SizeRuleOfCalls ==
    fn.op = "Archive" =>
        /\ (fn.resp.BodySize > MaxFileSize /\ Delivered(fn.resp)) => fn.result.err = TooLarge
        /\ fn.resp.BodySize > MaxFileSize => fn.result.err # ""
        /\ fn.resp.BodySize <= MaxFileSize => fn.result.err # TooLarge
        /\ (fn.resp.BodySize <= MaxFileSize /\ Delivered(fn.resp)) => fn.result.err = ""

\* a body of MaxFileSize + 1 bytes without a Content-Length header is refused
C17_OneByteOver ==
    /\ fn.op = "Archive" /\ fn.resp.BodySize = MaxFileSize + 1
    /\ fn.resp.ContentLength = -1 /\ Delivered(fn.resp)
    /\ fn.result.err = TooLarge

(***************************************************************************)
(* C19.  Hostname patterns.                                                *)
(***************************************************************************)
\* the strings s ends with, and those it starts with
Tails(s) == {SubSeq(s, k, Len(s)) : k \in 1..(Len(s) + 1)}
Heads(s) == {SubSeq(s, 1, k) : k \in 0..Len(s)}

\* C19: hostnameMatches(h, p) is true exactly when h equals p, or p is "*."
\* followed by a non-empty suffix and h equals the suffix or ends with "."
\* followed by the suffix; letters are compared by case.  "*.example.com"
\* matches example.com, www.example.com and a.b.example.com, and neither
\* otherexample.com nor com nor a name that differs in case.
C19_HostnameMatching ==
    fn.op = "hostnameMatches" =>
        LET h == fn.hostname
            p == fn.pattern
        IN /\ fn.result <=>
                \/ h = p
                \/ \E suffix \in Tails(p) :
                      /\ suffix # "" /\ p = "*." \o suffix
                      /\ \/ h = suffix
                         \/ \E head \in Heads(h) : h = head \o "." \o suffix
           /\ p = "*.example.com" =>
                /\ h \in {"example.com", "www.example.com", "a.b.example.com"} => fn.result
                /\ h \in {"otherexample.com", "com", "Example.COM", "WWW.EXAMPLE.COM",
                           "www.Example.com"} => ~fn.result
           /\ (p = "*.EXAMPLE.COM" /\ h = "www.example.com") => ~fn.result

\* a name two labels below the suffix of the pattern matches
C19_Witness ==
    /\ fn.op = "hostnameMatches"
    /\ fn.pattern = "*.example.com" /\ fn.hostname = "a.b.example.com"
    /\ fn.result

\* a name that ends with the suffix but not with "." and the suffix does not
C19_NoDotNoMatch ==
    /\ fn.op = "hostnameMatches"
    /\ fn.pattern = "*.example.com" /\ fn.hostname = "otherexample.com"
    /\ ~fn.result

(***************************************************************************)
(* C20.  MIME type patterns.                                               *)
(***************************************************************************)
\* C20: mimeTypeMatches(m, p) is true exactly when m equals p, or p ends with
\* "/*" and m starts with p up to and including that "/".  "image/*" matches
\* image/png and image/jpeg, and neither image nor application/image nor the
\* empty MIME type.
C20_MimeTypeMatching ==
    fn.op = "mimeTypeMatches" =>
        LET m == fn.mimeType
            p == fn.pattern
        IN /\ fn.result <=>
                \/ m = p
                \/ \E type \in Heads(p) :
                      /\ p = type \o "/*"
                      /\ \E rest \in Tails(m) : m = type \o "/" \o rest
           /\ p = "image/*" =>
                /\ m \in {"image/png", "image/jpeg"} => fn.result
                /\ m \in {"image", "application/image", ""} => ~fn.result

\* the wildcard pattern matches a subtype
C20_Witness ==
    /\ fn.op = "mimeTypeMatches"
    /\ fn.pattern = "image/*" /\ fn.mimeType = "image/jpeg"
    /\ fn.result

\* the type without a slash does not match the wildcard pattern
C20_NoSlashNoMatch ==
    /\ fn.op = "mimeTypeMatches"
    /\ fn.pattern = "image/*" /\ fn.mimeType = "image"
    /\ ~fn.result

C22_UnknownKindNeverMatches_AsStated ==
    (fn.op = "ruleMatches" /\ fn.rule.Kind \notin {"hostname", "mimetype"}) => ~fn.result

\* C22 amended: a rule whose kind is neither "hostname" nor "mimetype" matches
\* nothing when its pattern is not empty or its kind is empty; with a
\* non-empty kind and the empty pattern (the default rule) it matches all.
C22_UnknownKindNeverMatches ==
    (fn.op = "ruleMatches" /\ fn.rule.Kind \notin {"hostname", "mimetype"}) =>
        (fn.result <=> (fn.rule.Kind # "" /\ fn.rule.Pattern = ""))

\* a rule of unknown kind whose pattern is the hostname did not match
C22_Witness ==
    /\ fn.op = "ruleMatches"
    /\ fn.rule.Kind = "unknown" /\ fn.rule.Pattern = "example.com"
    /\ fn.hostname = "example.com"
    /\ ~fn.result

(***************************************************************************)
(* C23.  Fan-out without join.                                             *)
(***************************************************************************)
\* the runs the hook started for the post id and the URL u
HookRunsFor(id, u) == {r \in HookRunsOf(id) : runs[r].url = u}

\* the pcs at which the next step of a run is a call over the network
NetworkPcs == {"probe", "detect", "archive"}

\* the hook called for a user's post starts one run per extracted URL
OnePipelinePerURL ==
    \A id \in hooked : posts[id].UserId # BotID =>
        \A u \in URLs \cup {UserPostURLs[id][i] : i \in 1..Len(UserPostURLs[id])} :
            Cardinality(HookRunsFor(id, u)) =
                IF \E i \in 1..Len(UserPostURLs[id]) : UserPostURLs[id][i] = u THEN 1 ELSE 0

\* a run that has not returned can take its next step, whatever the pcs of
\* the other runs are
NeverBlockedByAnother == \A r \in Runs : Running(r) => ENABLED RunStep(r)

\* C23 (state part): the hook called for a user's post has started exactly
\* one run per extracted URL, and a run that has not returned can always take
\* its next step, wherever the other runs stand.
C23_FanOut == OnePipelinePerURL /\ NeverBlockedByAnother

\* C23 (step part): the hook returns with the runs it started at their first
\* step, waiting for none of them, and a step of one run leaves the record
\* of every other run as it is.
C23_NoJoin ==
    [][ /\ \A id \in hooked' \ hooked : \A r \in (1..Len(runs')) \ Runs :
              runs'[r].post = id => runs'[r].pc = "dedup"
        /\ \A r \in Runs : runs'[r] # runs[r] =>
              \A q \in Runs \ {r} : runs'[q] = runs[q] ]_vars

\* C23: both parts
C23_FanOutWithoutJoin == []C23_FanOut /\ C23_NoJoin

\* the hook has returned for a post with two URLs; the run of one of them
\* has reached its terminal state while the other stands before a call over
\* the network
C23_Witness ==
    \E id \in hooked : \E r, q \in HookRunsOf(id) :
        /\ r # q
        /\ Done(r) /\ Succeeded(runs[r])
        /\ runs[q].pc \in NetworkPcs

(***************************************************************************)
(* C24.  Configuration snapshot isolation.                                 *)
(***************************************************************************)
\* the pairs (user rules, default tool) a single configuration update
\* produces: what an earlier activation left in the KV store, the body of an
\* accepted POST /config, an accepted custom setting
ProducedByOneUpdate ==
    { [rules |-> <<>>, tool |-> "do_nothing"] }
    \cup { [rules |-> filterDefaultRules(c.rules), tool |-> defaultToolBytes(c.tool).tool] :
             c \in StoredConfigs }
    \cup { [rules |-> filterDefaultRules(requestRules(req)),
            tool |-> defaultToolBytes(req.DefaultArchivalTool).tool] :
             req \in {q \in Requests : apiStatus(q.UserID) = "200" /\ requestRulesValid(requestRules(q))} }
    \cup { [rules |-> filterDefaultRules(raw.ArchivalRules),
            tool |-> defaultToolBytes(raw.DefaultArchivalTool).tool] :
             raw \in {w \in RawSettings : w.form = "json" /\ validateArchivalRules(w.ArchivalRules)} }

\* C24: every snapshot getConfiguration returns, under any interleaving with
\* UpdateConfig and OnConfigurationChange, pairs the rule list of one update
\* with the default tool of the same update.
C24_SnapshotIsolation ==
    [][Len(snaps') > Len(snaps) =>
        LET snapshot == snaps'[Len(snaps')]
            rules == View(heap', snapshot.ArchivalRules)
        IN [rules |-> SubSeq(rules, 1, Len(rules) - 1), tool |-> snapshot.DefaultArchivalTool]
               \in ProducedByOneUpdate]_vars

\* the same of the snapshots taken while no KV call has failed: what is left
\* is the interleaving of the reads with the saves of the updates
C24_IsolationWithoutFailures ==
    [][(Len(snaps') > Len(snaps) /\ faults' = 0) =>
        LET snapshot == snaps'[Len(snaps')]
            rules == View(heap', snapshot.ArchivalRules)
        IN [rules |-> SubSeq(rules, 1, Len(rules) - 1), tool |-> snapshot.DefaultArchivalTool]
               \in ProducedByOneUpdate]_vars

(***************************************************************************)
(* C25.  The reference to the original post.                               *)
(***************************************************************************)
\* the posts the message of the reply id links to
ReferencesOf(id) ==
    {p \in DOMAIN posts : \E i \in 1..Len(posts[id].Message) :
        posts[id].Message[i] = Word("/pl/" \o p)}

\* the reply links to some post, found or not
HasReference(id) ==
    \E i \in 1..Len(posts[id].Message) :
        posts[id].Message[i].form = "word" /\ HasPrefix(posts[id].Message[i].s, "/pl/")

\* the post whose run uploaded the file
UploaderOf(fileID) ==
    {runs[q].post : q \in {q \in Runs : runs[q].path = "new" /\ runs[q].md # Nil
                                        /\ runs[q].md.FileID = fileID}}

\* what C25 says of the success reply id of the run, whose lookup of the
\* original post came out as found
OriginalPostRule(run, id, found) ==
    IF run.path = "new" THEN ~HasReference(id)
    ELSE /\ UploaderOf(posts[id].FileIds[1]) = {run.existing.PostID}
         /\ IF run.existing.PostID # run.post /\ found
            THEN ReferencesOf(id) = {run.existing.PostID}
            ELSE ~HasReference(id)

\* C25 as stated: the success reply of a run that reused an artifact links
\* to the post that uploaded it whenever that post is not the post of the run,
\* and to none when it is; the reply of a run that stored a new artifact
\* links to no post
C25_OriginalPostReference_AsStated ==
    \A r \in Runs : \A i \in 1..Len(runs[r].replies) :
        IsSuccessReply(runs[r].replies[i]) => OriginalPostRule(runs[r], runs[r].replies[i], TRUE)

\* C25 amended: the same, the link being there whenever the post that
\* uploaded the artifact is not the post of the run and that post and its
\* channel could be looked up; when the lookup fails the reply is posted with
\* no link.
C25_OriginalPostReference ==
    \A r \in Runs : \A i \in 1..Len(runs[r].replies) :
        IsSuccessReply(runs[r].replies[i]) =>
            OriginalPostRule(runs[r], runs[r].replies[i],
                             "original post not found" \notin runs[r].ev)

\* a run reused, by ETag, the artifact another post had uploaded, and its
\* reply links to that post
C25_Witness ==
    \E r \in Runs :
        /\ Done(r) /\ runs[r].path = "etag" /\ Len(runs[r].replies) = 1
        /\ runs[r].existing.PostID # runs[r].post
        /\ ReferencesOf(runs[r].replies[1]) = {runs[r].existing.PostID}

\* a run reused, by hash, the artifact its own post had uploaded, and its
\* reply has no link
C25_SamePost ==
    \E r \in Runs :
        /\ Done(r) /\ runs[r].path = "hash" /\ Len(runs[r].replies) = 1
        /\ runs[r].existing.PostID = runs[r].post
        /\ ~HasReference(runs[r].replies[1])

(***************************************************************************)
(* C26.  Policy errors.                                                    *)
(***************************************************************************)
NoToolFound == "no archival tool found for MIME type"
ToolNotRegistered == "archival tool not found"

\* the rule engine resolved a name the run cannot archive with: the empty
\* one, or one that is neither registered nor "do_nothing"
PolicyError(run) ==
    \/ run.err = NoToolFound
    \/ run.toolName # "" /\ run.toolName \notin RegisteredTools \cup {"do_nothing"}

\* C26 (the run): a run for which the rule engine resolved the empty name or
\* a name that is neither registered nor "do_nothing" carries the error of
\* its case, calls no tool, uploads nothing, writes no record and posts no
\* success reply; when it has returned it has called ReplyWithError once,
\* and the thread holds that error reply and nothing else of the run.
PolicyErrorsOfRuns ==
    \A r \in Runs :
        LET run == runs[r]
        IN PolicyError(run) =>
            /\ run.err = IF run.toolName = "" THEN NoToolFound ELSE ToolNotRegistered
            /\ run.pc \in {"errReply", "done"}
            /\ ~Did(run, "Archive") /\ ~Did(run, "StoreArchivedFile")
            /\ ~Did(run, "ReplyWithAttachment")
            /\ run.written = <<>> /\ run.file = Nil /\ run.md = Nil
            /\ Times(run, "ReplyWithError") = (IF run.pc = "done" THEN 1 ELSE 0)
            /\ run.pc = "done" =>
                /\ run.exit = "failed"
                /\ IF DidOK(run, "ReplyWithError")
                   THEN /\ Len(run.replies) = 1
                        /\ posts[run.replies[1]] =
                              [UserId |-> BotID, RootId |-> run.post,
                               Message |-> ErrorText(run.url, run.err), FileIds |-> <<>>]
                   ELSE run.replies = <<>>

\* C26 (the stores): a step of such a run leaves the KV store and the file
\* store as they are.
PolicyErrorsStoreNothing ==
    [][\A r \in Runs : (PolicyError(runs[r]) /\ runs'[r] # runs[r]) =>
            (kv' = kv /\ files' = files)]_vars

\* C26: a run whose resolved tool name is empty or names no registered tool
\* (and is not "do_nothing") posts an error reply and returns, having called
\* no tool, uploaded nothing and written no record.
C26_PolicyErrorsReported == []PolicyErrorsOfRuns /\ PolicyErrorsStoreNothing

\* the default tool of the stored configuration is not registered: the run
\* has returned with its error reply in the thread
C26_Witness ==
    \E r \in Runs :
        /\ Done(r) /\ runs[r].toolName = "wget"
        /\ Len(runs[r].replies) = 1 /\ IsErrorReply(runs[r].replies[1])

\* the choice of the tool called on configurations built by hand: the empty
\* name and an unregistered name lead to the error reply with the error of
\* the case, "do_nothing" to the return, a registered name to the tool
C26_ChoiceOfCalls ==
    fn.op = "selectTool" =>
        /\ fn.result.toolName = fn.tool
        /\ fn.result.pc = (IF fn.tool = "do_nothing" THEN "done"
                           ELSE IF fn.tool \in RegisteredTools THEN "archive" ELSE "errReply")
        /\ fn.result.err = (IF fn.tool = "" THEN NoToolFound
                            ELSE IF fn.tool \in RegisteredTools \cup {"do_nothing"} THEN ""
                            ELSE ToolNotRegistered)
        /\ (fn.tool \notin RegisteredTools \cup {"do_nothing"}) => PolicyError(fn.result)

\* the rule engine resolved the empty name
C26_EmptyNameCalled == fn.op = "selectTool" /\ fn.tool = "" /\ fn.result.pc = "errReply"

(***************************************************************************)
(* C27.  URL extraction: order and duplicates.                             *)
(***************************************************************************)
\* the valid URLs the bare-URL pattern, and the link pattern, find in a token
PlainIn(tok) == {u \in Range(plainMatch(tok)) : isValidURL(u)}
TargetIn(tok) == {u \in Range(markdownMatch(tok)) : isValidURL(u)}

\* the accepted URLs of a message
Accepted(message) == UNION {PlainIn(message[i]) \cup TargetIn(message[i]) : i \in DOMAIN message}

Min(S) == CHOOSE x \in S : \A y \in S : x <= y

\* the token in which u first appears, bare or as a link target
FirstAppearance(message, u) ==
    Min({i \in DOMAIN message : u \in PlainIn(message[i]) \cup TargetIn(message[i])})

\* the bare-URL pattern finds u somewhere in the message
FoundPlain(message, u) == \E i \in DOMAIN message : u \in PlainIn(message[i])

FirstPlain(message, u) == Min({i \in DOMAIN message : u \in PlainIn(message[i])})
FirstTarget(message, u) == Min({i \in DOMAIN message : u \in TargetIn(message[i])})

\* each accepted URL once, and nothing else
EachAcceptedOnce(message, urls) ==
    /\ \A i, j \in DOMAIN urls : urls[i] = urls[j] => i = j
    /\ Range(urls) = Accepted(message)

\* C27 as stated: ExtractURLs returns each accepted URL exactly once, in the
\* order in which the URLs first appear in the text, bare or as link targets
C27_OrderOfFirstAppearance_AsStated ==
    fn.op = "ExtractURLs" =>
        /\ EachAcceptedOnce(fn.message, fn.result)
        /\ \A i, j \in DOMAIN fn.result : i < j =>
              FirstAppearance(fn.message, fn.result[i]) <= FirstAppearance(fn.message, fn.result[j])

\* C27 amended: ExtractURLs returns each accepted URL exactly once: first the
\* URLs the bare-URL pattern finds (http and https URLs, bare or as link
\* targets, trailing punctuation trimmed), in the order of their first
\* appearance, then the link targets that pattern does not yield, in the
\* order of their first appearance.
C27_OrderAndNoDuplicates ==
    fn.op = "ExtractURLs" =>
        /\ EachAcceptedOnce(fn.message, fn.result)
        /\ \A i, j \in DOMAIN fn.result : i < j =>
              LET u == fn.result[i]
                  v == fn.result[j]
              IN IF FoundPlain(fn.message, u)
                 THEN FoundPlain(fn.message, v) =>
                        FirstPlain(fn.message, u) < FirstPlain(fn.message, v)
                 ELSE /\ ~FoundPlain(fn.message, v)
                      /\ FirstTarget(fn.message, u) < FirstTarget(fn.message, v)

\* a bare URL, then a link to another URL, then the first URL again as a
\* link: each once, in the order of the text
C27_Witness ==
    /\ fn.op = "ExtractURLs"
    /\ fn.message = <<Bare(U2), Md(U1), Md(U2 \o ".")>>
    /\ fn.result = <<U2, U1, U2 \o ".">>

\* the example of the claim, on the URLs of the model
C27_Example ==
    /\ fn.op = "ExtractURLs"
    /\ fn.message = <<Word("see"), Bare(U2), Md(U1)>>
    /\ fn.result = <<U2, U1>>

\* a link of another scheme before a bare URL comes out after it
C27_TargetAfterBare ==
    /\ fn.op = "ExtractURLs"
    /\ fn.message = <<Md("ftp://c.io/f"), Bare(U2)>>
    /\ fn.result = <<U2, "ftp://c.io/f">>

(***************************************************************************)
(* C28.  Combined rules.                                                   *)
(***************************************************************************)
\* the rules of type ArchivalRule an administrator could write down for
\* "hostname pattern hp and MIME type pattern mp": the three fields are all
\* a rule has
RulesWrittenFor(hp, mp) ==
    { Rule(kind, pattern, "direct_download") :
        kind \in CallKinds \cup {"both", "hostname,mimetype"},
        pattern \in {"", hp, mp, hp \o " " \o mp, hp \o "," \o mp, hp \o "|" \o mp} }

\* C28: a rule can specify both a hostname pattern and a MIME type pattern,
\* and ruleMatches then matches exactly the pairs whose hostname matches the
\* one and whose MIME type matches the other.
C28_CombinedRules ==
    fn.op = "ruleMatches" =>
    \A hp \in {"example.com", "*.example.com"}, mp \in {"application/pdf", "image/*"} :
        \E rule \in RulesWrittenFor(hp, mp) :
            \A hostname \in {"example.com", "www.example.com", "other.com", ""},
               mimeType \in {"application/pdf", "image/png", ""} :
                ruleMatches(hostname, mimeType, rule) <=>
                    (hostnameMatches(hostname, hp) /\ mimeTypeMatches(mimeType, mp))

\* what does hold: whether a rule matches depends on the hostname alone or on
\* the MIME type alone
C28_OnePatternPerRule ==
    fn.op = "ruleMatches" =>
        \/ \A mimeType \in CallMimes :
              ruleMatches(fn.hostname, mimeType, fn.rule) = fn.result
        \/ \A hostname \in CallHostnames :
              ruleMatches(hostname, fn.mimeType, fn.rule) = fn.result

(***************************************************************************)
(* C29.  Admin-only configuration.                                         *)
(***************************************************************************)
ApiOps == {"GET /api/v1/config", "POST /api/v1/config", "GET /api/v1/archival-tools"}

IsSystemAdmin(userID) == userID \in DOMAIN Users /\ "system_admin" \in Users[userID].Roles

\* the response to a request without the header is 401, to one of a user
\* who is no system admin 403
RejectedWithStatus ==
    fn.op \in ApiOps =>
        /\ fn.UserID = "" => fn.status = "401"
        /\ (fn.UserID # "" /\ ~IsSystemAdmin(fn.UserID)) => fn.status = "403"
        /\ fn.status \in {"401", "403"} => ~IsSystemAdmin(fn.UserID)

\* the step that serves a request (it records the response, or counts the
\* POST) and rejects it leaves the stored rules, the stored default tool,
\* p.configuration and the update under way as they are
RejectedChangesNothing ==
    [][(/\ fn'.op \in ApiOps
        /\ fn' # fn \/ updates' # updates
        /\ fn'.status \in {"401", "403"})
       => (kv' = kv /\ memCfg' = memCfg /\ upd' = upd /\ heap' = heap /\ snaps' = snaps
           /\ faults' = faults)]_vars

\* C29: a request to GET or POST /api/v1/config or GET /api/v1/archival-tools
\* without the Mattermost-User-ID header is answered 401, one of a user who
\* is no system admin 403, and serving it changes neither the stored rules
\* nor the stored default tool nor p.configuration.
C29_AdminOnly == []RejectedWithStatus /\ RejectedChangesNothing

\* a member's POST was answered 403 after an admin's POST had been stored:
\* the store holds the admin's rules
C29_Witness ==
    /\ fn.op = "POST /api/v1/config" /\ fn.UserID = "user1" /\ fn.status = "403"
    /\ updates = 2 /\ upd = Nil
    /\ archivalRulesKey \in DOMAIN kv /\ kv[archivalRulesKey] = rulesBytes(<<R1, R2, R3>>)
    /\ memCfg # Nil /\ memCfg.DefaultArchivalTool = "obelisk"

\* a request without the header was answered 401
C29_NoHeader == fn.op = "GET /api/v1/config" /\ fn.UserID = "" /\ fn.status = "401"

(***************************************************************************)
(* C30.  Rule evaluation on a URL without hostname.                        *)
(***************************************************************************)
\* the URLs of the calls that yield no hostname: one that url.Parse takes
\* for a relative path, one that url.Parse rejects
NoHostnameURLs == {"not a url", BadPortURL}

\* the rules that can match when there is no hostname: a mimetype rule whose
\* pattern matches the MIME type, and a rule with a kind and no pattern
MatchesWithoutHostname(rule, mimeType) ==
    /\ rule.Kind # ""
    /\ \/ rule.Pattern = ""
       \/ rule.Kind = "mimetype" /\ mimeTypeMatches(mimeType, rule.Pattern)

\* C30: called on a URL that yields no hostname, findArchivalTool returns
\* the tool of the first rule in the order of the list that is a mimetype
\* rule matching the MIME type or a catch-all rule, which no hostname rule
\* with a pattern is; the tool of the final catch-all rule when no rule
\* before it is one.
C30_NoHostname ==
    (fn.op \in {"findArchivalTool", "findArchivalTool on rules"} /\ fn.urlStr \in NoHostnameURLs) =>
        LET rules == fn.config.ArchivalRules
            hits == {i \in 1..Len(rules) : MatchesWithoutHostname(rules[i], fn.mimeType)}
        IN /\ hostnameOf(fn.urlStr) = ""
           /\ \A i \in 1..Len(rules) :
                (rules[i].Kind = "hostname" /\ rules[i].Pattern # "") =>
                    ~ruleMatches(hostnameOf(fn.urlStr), fn.mimeType, rules[i])
           /\ IF hits = {} THEN fn.result = "do_nothing"
              ELSE fn.result = rules[Min(hits)].ArchivalTool
           /\ fn.op = "findArchivalTool" =>
                /\ Len(rules) \in hits
                /\ (hits = {Len(rules)}) => fn.result = fn.config.DefaultArchivalTool

\* url.Parse rejects the URL, whose text holds a hostname that the first
\* rule names: the rule is passed over and the mimetype rule after it decides
C30_Witness ==
    /\ fn.op = "findArchivalTool" /\ fn.urlStr = BadPortURL /\ fn.mimeType = "image/png"
    /\ Len(fn.config.ArchivalRules) >= 2
    /\ SubSeq(fn.config.ArchivalRules, 1, 2) =
          <<Rule("hostname", "*.a.io", "direct_download"), Rule("mimetype", "image/png", "obelisk")>>
    /\ fn.result = "obelisk"

\* no rule before the catch-all rule matches: its tool is returned
C30_CatchAll ==
    /\ fn.op = "findArchivalTool" /\ fn.urlStr = "not a url" /\ fn.mimeType = ""
    /\ Len(fn.config.ArchivalRules) >= 2
    /\ SubSeq(fn.config.ArchivalRules, 1, 2) =
          <<Rule("hostname", "w.a.io", "obelisk"), Rule("mimetype", "image/*", "do_nothing")>>
    /\ fn.config.DefaultArchivalTool = "obelisk" /\ fn.result = "obelisk"

(***************************************************************************)
(* C31.  Failed and skipped runs change nothing.                           *)
(***************************************************************************)
\* the run returned after its error reply, or silently because the URL was
\* already archived for the post or the tool is do_nothing
FailedOrSkipped(run) ==
    run.pc = "done" /\ run.exit \in {"failed", "already_archived", "do_nothing"}

\* the run uploads a file in this step
UploadsNow(r) ==
    /\ Len(runs'[r].calls) > Len(runs[r].calls)
    /\ runs'[r].calls[Len(runs'[r].calls)] = <<"StoreArchivedFile", TRUE>>

\* the run writes to the KV store in this step
WritesNow(r) == Len(runs'[r].written) > Len(runs[r].written)

\* the stores change only in the steps the logs of the runs record: the KV
\* store in a successful write of a run, the file store in a successful
\* upload of a run
StoresChangeByRunsOnly ==
    [][/\ kv' # kv => \E r \in Runs : WritesNow(r)
       /\ files' # files => \E r \in Runs : UploadsNow(r)]_vars

\* no step of a run that has failed or was skipped, or that is about to
\* report an error, changes a store
FailedRunsWriteNothing ==
    \A r \in Runs :
        (FailedOrSkipped(runs[r]) \/ runs[r].pc = "errReply") =>
            /\ runs[r].written = <<>>
            /\ ~DidOK(runs[r], "StoreArchivedFile")

\* C31: a run of processURL that ends with an error reply or with a silent
\* skip has made no write to the KV store and no upload to the file store,
\* and the stores change in no other step of a run: such a run leaves the
\* per-post records, the global records and the file store as it found them.
C31_FailedRunsChangeNothing == []FailedRunsWriteNothing /\ StoresChangeByRunsOnly

\* a run whose upload failed has reported it while the stores hold what an
\* earlier run put there
C31_Witness ==
    \E r \in Runs :
        /\ runs[r].exit = "failed" /\ Len(runs[r].replies) = 1
        /\ DidFail(runs[r], "StoreArchivedFile")
        /\ Len(files) > 0 /\ getGlobalArchiveKey(runs[r].url) \in DOMAIN kv

\* a run skipped silently because of the per-post record
C31_Skipped ==
    \E r \in Runs : runs[r].exit = "already_archived" /\ runs[r].replies = <<>>

(***************************************************************************)
(* C32.  No dangling artifact references.                                  *)
(***************************************************************************)
\* the ids UploadFile has returned so far
UploadedIDs == {FileID(n) : n \in 1..Len(files)}

\* the records the KV store holds, per-post and global
PersistedRecords ==
    UNION {{kv[k].list[i] : i \in 1..Len(kv[k].list)} : k \in PerPostKeys}
    \cup {kv[k] : k \in GlobalKeys}

NoDanglingReference == \A record \in PersistedRecords : record.FileID \in UploadedIDs

\* a record a run writes in a step names an artifact that was in the file
\* store before the step, and no step removes or replaces an artifact
UploadPrecedesRecord ==
    [][/\ IsPrefix(files, files')
       /\ \A r \in Runs :
            WritesNow(r) =>
                LET value == runs'[r].written[Len(runs'[r].written)][2]
                    record == IF "list" \in DOMAIN value THEN value.list[Len(value.list)]
                              ELSE value
                IN /\ record.FileID \in UploadedIDs
                   /\ files' = files]_vars

\* C32: in every reachable state the FileID of every persisted record,
\* per-post or global, is the id of an artifact in the file store; every
\* record is written in a step before which its artifact was uploaded, and
\* no artifact is ever removed, under every interleaving of the runs.
C32_NoDanglingReference == []NoDanglingReference /\ UploadPrecedesRecord

\* a record of a post refers to the artifact that a run for another post
\* uploaded and a run for this post reused
C32_Witness ==
    \E record \in PersistedRecords, r, u \in Runs :
        /\ DidOK(runs[u], "StoreArchivedFile") /\ runs[u].md.FileID = record.FileID
        /\ runs[u].post # runs[r].post
        /\ record.PostID = runs[r].post
        /\ runs[r].path \in {"etag", "hash"} /\ runs[r].written # <<>>

(***************************************************************************)
(* C33.  Per-post records and the success reply.                           *)
(***************************************************************************)
\* the per-post records the KV store holds
PerPostRecords == UNION {{kv[k].list[i] : i \in 1..Len(kv[k].list)} : k \in PerPostKeys}

\* a success reply for url stands in the thread of the post postID
HasSuccessReply(postID, url) ==
    \E id \in DOMAIN posts :
        /\ IsSuccessReply(id) /\ posts[id].RootId = postID
        /\ \E i \in 1..Len(posts[id].Message) : posts[id].Message[i] = Bare(url)

\* the run wrote a per-post record
WrotePerPost(run) ==
    \E i \in 1..Len(run.written) : HasPrefix(run.written[i][1], "archive_post_")

\* the record is that of a run which uploaded a new artifact and whose
\* success reply could not be created
RecordOfUnnotifiedUpload(record) ==
    \E u \in Runs :
        /\ runs[u].post = record.PostID /\ runs[u].url = record.OriginalURL
        /\ runs[u].path = "new" /\ DidOK(runs[u], "StoreArchivedFile")
        /\ runs[u].md.FileID = record.FileID
        /\ DidFail(runs[u], "ReplyWithAttachment")

\* C33 as stated: whenever a per-post record exists for (postId, url), a
\* success reply for the URL stands in the thread of the post, and no run
\* whose success reply failed to be created has persisted a per-post record.
C33_RecordImpliesReply_AsStated ==
    /\ \A record \in PerPostRecords : HasSuccessReply(record.PostID, record.OriginalURL)
    /\ \A r \in Runs : DidFail(runs[r], "ReplyWithAttachment") => ~WrotePerPost(runs[r])

\* C33 amended: whenever a per-post record exists for (postId, url), a
\* success reply for the URL stands in the thread of the post, unless the
\* record is that of a run which uploaded a new artifact and whose success
\* reply failed; a run that reuses an artifact (by ETag or by hash) and whose
\* success reply failed persists no record at all.
C33_RecordImpliesReply ==
    /\ \A record \in PerPostRecords :
        \/ HasSuccessReply(record.PostID, record.OriginalURL)
        \/ RecordOfUnnotifiedUpload(record)
    /\ \A r \in Runs :
        (DidFail(runs[r], "ReplyWithAttachment") /\ runs[r].path \in {"etag", "hash"}) =>
            runs[r].written = <<>>

\* a run that reused an artifact has returned on its failed reply, and the
\* post of an earlier run has its record and its reply
C33_Witness ==
    /\ \E r \in Runs :
        /\ Done(r) /\ runs[r].path \in {"etag", "hash"}
        /\ DidFail(runs[r], "ReplyWithAttachment")
    /\ \E record \in PerPostRecords : HasSuccessReply(record.PostID, record.OriginalURL)

\* a new artifact was uploaded, the reply failed, the record was written
C33_UnnotifiedRecord ==
    \E record \in PerPostRecords :
        /\ ~HasSuccessReply(record.PostID, record.OriginalURL)
        /\ RecordOfUnnotifiedUpload(record)

(***************************************************************************)
(* C34.  At most one reply per run.                                        *)
(***************************************************************************)
\* the replies of the bot
BotPosts == {id \in DOMAIN posts : posts[id].UserId = BotID}

\* the runs that created the post id
CreatorsOf(id) == {r \in Runs : \E i \in 1..Len(runs[r].replies) : runs[r].replies[i] = id}

\* how often the run called the notifier
ReplyCalls(run) == Times(run, "ReplyWithAttachment") + Times(run, "ReplyWithError")

\* C34: a run of processURL, on every path and for every outcome of its
\* external calls, calls the notifier at most once (ReplyWithAttachment or
\* ReplyWithError, never both and never one of them twice) and so creates at
\* most one reply; every post of the bot is the reply of exactly one run, and
\* stands in the thread of the post of that run.
C34_AtMostOneReply ==
    /\ \A r \in Runs : ReplyCalls(runs[r]) <= 1 /\ Len(runs[r].replies) <= ReplyCalls(runs[r])
    /\ \A id \in BotPosts :
        /\ Cardinality(CreatorsOf(id)) = 1
        /\ \A r \in CreatorsOf(id) : posts[id].RootId = runs[r].post

\* a write of metadata failed after the success reply of the run, and the
\* run ended with that reply as its only one
C34_Witness ==
    \E r \in Runs :
        /\ Done(r) /\ NotifiedSuccess(runs[r]) /\ PersistFailed(runs[r])
        /\ ReplyCalls(runs[r]) = 1

(***************************************************************************)
(* C35.  The ETag and the artifact of a global record.                     *)
(***************************************************************************)
\* the server of url keeps to the meaning of an ETag: it has never sent one
\* ETag with two contents
ETagsIdentifyContent(url) ==
    \A p, q \in web[url].served : (p[2] = q[2] /\ p[2] # "") => p[1] = q[1]

\* the bytes of the artifact the record points to
ArtifactOf(record) ==
    LET n == CHOOSE n \in 1..Len(files) : FileID(n) = record.FileID IN files[n]

\* the ETag of the record was served for the bytes of its artifact
SameVersion(record) ==
    record.ETag # "" => <<ArtifactOf(record), record.ETag>> \in web[record.OriginalURL].served

\* C35: for every global record, of a URL whose server has never sent one
\* ETag with two contents, the ETag of the record (when it has one) was
\* served by that server for the bytes of the artifact the record points
\* to, so that a run which reuses the artifact because it probed that ETag
\* replies with the content the ETag stands for; also when the content
\* changes between the probe and the download of the run that wrote the
\* record.
C35_ETagDescribesArtifact ==
    \A k \in GlobalKeys :
        ETagsIdentifyContent(kv[k].OriginalURL) => SameVersion(kv[k])

\* the run probed, the content changed under a new ETag, the run downloaded
\* and wrote the global record
C35_ChangedBetweenProbeAndDownload ==
    \E r \in Runs :
        /\ DidOK(runs[r], "StoreGlobalArchiveMetadata")
        /\ runs[r].meta # Nil /\ runs[r].meta.ETag # ""
        /\ ETagsIdentifyContent(runs[r].url)
        /\ <<runs[r].file.Data, runs[r].meta.ETag>> \notin web[runs[r].url].served

(***************************************************************************)
(* C36.  The reuse by ETag writes the per-post record only.                *)
(***************************************************************************)
\* the global records, by key
GlobalRecords == [k \in GlobalKeys |-> kv[k]]

\* the run takes a step
Steps(r) == r \in DOMAIN runs /\ runs'[r] # runs[r]

\* every step of a run that reuses by ETag, from the lookup that decides on
\* the reuse to the return, leaves the global records and the file store as
\* they are, and what it writes it writes under the per-post key of its post
EtagReuseFrame ==
    [][\A r \in Runs :
        (Steps(r) /\ runs'[r].path = "etag") =>
            /\ GlobalRecords' = GlobalRecords
            /\ files' = files
            /\ \A k \in DOMAIN kv' :
                (k \notin DOMAIN kv \/ kv'[k] # kv[k]) =>
                    k = getArchiveMetadataKey(runs[r].post, runs[r].url)]_vars

\* the writes of a run that reused by ETag: none before the reply and after
\* a failed call, else the one of the per-post list with its record appended
EtagReuseWrites ==
    \A r \in Runs :
        LET run == runs[r]
        IN run.path = "etag" =>
            /\ ~Did(run, "Archive") /\ ~Did(run, "StoreArchivedFile")
            /\ ~Did(run, "StoreGlobalArchiveMetadata")
            /\ Len(run.written) <= 1
            /\ (Done(r) /\ DidOK(run, "StoreArchiveMetadata.KVSet")) =>
                /\ Len(run.written) = 1
                /\ run.written[1][1] = getArchiveMetadataKey(run.post, run.url)
                /\ LET list == run.written[1][2].list
                   IN /\ list = Append(run.list, marshalMetadata(run.md))
                      /\ list[Len(list)].PostID = run.post
                      /\ list[Len(list)].FileID = run.existing.FileID

\* C36: a run that reuses by ETag match writes one thing, the per-post list
\* of its post with one record appended, and leaves the global record of the
\* URL (its PostID, timestamp and ETag with the rest) and the file store as
\* they are.
C36_EtagReuseWritesPerPostOnly == []EtagReuseWrites /\ EtagReuseFrame

\* a run for another post has reused by ETag and written its record, and
\* the global record is still that of the post that uploaded the artifact
C36_Witness ==
    \E r \in Runs :
        /\ Done(r) /\ runs[r].path = "etag" /\ Len(runs[r].written) = 1
        /\ kv[getGlobalArchiveKey(runs[r].url)].PostID # runs[r].post
        /\ kv[getGlobalArchiveKey(runs[r].url)] = runs[r].existing

(***************************************************************************)
(* C37.  UpdateConfig: all or nothing.                                     *)
(***************************************************************************)
\* the handler answers the request in this step with a status of refusal
\* reached after the authorization: 400 from the validation, 500 from
\* saveDefaultArchivalTool
RefusedAtOnce ==
    /\ fn' # fn /\ fn'.op = "POST /api/v1/config"
    /\ fn'.status \in {"400", "500"}

\* saveArchivalRules fails in this step and the handler answers 500
FailsAtSaveRules == upd # Nil /\ upd.pc = "saveArchivalRules" /\ upd' = Nil

\* the handler updates p.configuration in this step and answers 200
SucceedsNow == upd # Nil /\ upd.pc = "memory" /\ upd' = Nil

\* C37: a configuration update that the validation rejects or one of whose
\* KV writes fails leaves the persisted rules, the persisted default tool
\* and the configuration in memory as they were before the request; one
\* that succeeds leaves all three as the request has them.
C37_AllOrNothing ==
    [][/\ RefusedAtOnce => (kv' = kv /\ memCfg' = memCfg)
       /\ FailsAtSaveRules =>
            /\ KVGet(archivalRulesKey)' = upd.before.rules
            /\ KVGet(defaultArchivalToolKey)' = upd.before.tool
            /\ memCfg' = upd.before.mem
       /\ SucceedsNow =>
            /\ kv'[archivalRulesKey] = rulesBytes(upd.rules)
            /\ kv'[defaultArchivalToolKey] = defaultToolBytes(upd.tool)
            /\ View(heap', memCfg'.ArchivalRules) = upd.rules
            /\ memCfg'.DefaultArchivalTool = upd.tool]_vars

\* what does hold: a request refused by the validation or by a failed
\* saveDefaultArchivalTool changes nothing; a failed saveArchivalRules
\* leaves the rules and the memory as before, the default tool of the
\* request being stored; a request that succeeds is reflected in all three
C37_AllOrNothingButDefaultTool ==
    [][/\ RefusedAtOnce => (kv' = kv /\ memCfg' = memCfg)
       /\ FailsAtSaveRules =>
            /\ KVGet(archivalRulesKey)' = upd.before.rules
            /\ KVGet(defaultArchivalToolKey)' = defaultToolBytes(upd.tool)
            /\ memCfg' = upd.before.mem
       /\ SucceedsNow =>
            /\ kv'[archivalRulesKey] = rulesBytes(upd.rules)
            /\ kv'[defaultArchivalToolKey] = defaultToolBytes(upd.tool)
            /\ View(heap', memCfg'.ArchivalRules) = upd.rules
            /\ memCfg'.DefaultArchivalTool = upd.tool]_vars

\* the store after a failed saveArchivalRules: the default tool of the
\* refused request next to the rules of the configuration before it
C37_HalfApplied ==
    /\ upd = Nil /\ fn.op = "POST /api/v1/config" /\ fn.status = ""
    /\ defaultArchivalToolKey \in DOMAIN kv /\ kv[defaultArchivalToolKey] = defaultToolBytes("obelisk")
    /\ archivalRulesKey \in DOMAIN kv /\ kv[archivalRulesKey] # rulesBytes(<<R1, R2, R3>>)
    /\ memCfg = Nil

(***************************************************************************)
(* C38.  Only valid user rules are persisted.                              *)
(***************************************************************************)
\* the rule is one a user may have: of kind hostname or mimetype, with a
\* pattern and a tool
ValidUserRule(rule) ==
    /\ rule.Kind \in {"hostname", "mimetype"}
    /\ rule.Pattern # ""
    /\ rule.ArchivalTool # ""

\* the value under the key of the rules
StoredRules == KVGet(archivalRulesKey)

\* the rule sets an earlier activation can have left in the store
LeftByEarlierVersion == {rulesBytes(c.rules) : c \in StoredConfigs}

\* every write of the rules writes valid user rules only
RulesWrittenAreValid ==
    [][StoredRules' # StoredRules =>
        \A i \in 1..Len(StoredRules'.rules) : ValidUserRule(StoredRules'.rules[i])]_vars

\* a call with a rule set that is not valid leaves the stored rules alone
RejectedLeavesRules ==
    [][/\ \A req \in Requests :
            (~(\A i \in 1..Len(requestRules(req)) : ValidUserRule(requestRules(req)[i]))
             /\ UpdateConfig(req)) => StoredRules' = StoredRules
       /\ \A raw \in RawSettings :
            (/\ raw.form = "json"
             /\ ~(\A i \in 1..Len(raw.ArchivalRules) : ValidUserRule(raw.ArchivalRules[i]))
             /\ OnConfigurationChange(raw)) => StoredRules' = StoredRules]_vars

\* the stored rules are those that were there when the plugin started, or
\* valid user rules
StoredRulesValid ==
    \/ StoredRules = Nil
    \/ StoredRules \in LeftByEarlierVersion
    \/ \A i \in 1..Len(StoredRules.rules) : ValidUserRule(StoredRules.rules[i])

\* C38: through every sequence of UpdateConfig and OnConfigurationChange
\* calls, every rule these calls store has kind hostname or mimetype, a
\* pattern and a tool, so that the synthetic default rule (kind default, no
\* pattern) is never written; a rule set that is rejected leaves the stored
\* rules as they are.
C38_OnlyValidRulesPersisted ==
    /\ []StoredRulesValid
    /\ RulesWrittenAreValid
    /\ RejectedLeavesRules

\* after two calls the store and the memory hold the rules of an accepted
\* request
C38_Witness ==
    /\ updates = 2 /\ upd = Nil
    /\ StoredRules = rulesBytes(<<R1, R2, R3>>)
    /\ memCfg # Nil /\ View(heap, memCfg.ArchivalRules) = <<R1, R2, R3>>

(***************************************************************************)
(* C39.  The classification of errors.                                     *)
(***************************************************************************)
Reasons ==
    {"Timeout while fetching URL", "Invalid URL format", "Failed to download file",
     "Failed to store file", "Could not determine content type", "File too large",
     "HTTP client error", "HTTP server error", "Unknown error"}

\* the reason that names the cause
ReasonOf(cause) ==
    CASE cause = "http 4xx" -> "HTTP client error"
      [] cause = "http 5xx" -> "HTTP server error"
      [] cause = "too large" -> "File too large"
      [] cause = "upload" -> "Failed to store file"
      [] cause = "mime" -> "Could not determine content type"
      [] cause = "timeout" -> "Timeout while fetching URL"
      [] cause = "connection" -> "Failed to download file"

\* C39: extractErrorReason gives every error one of the nine reasons, and
\* for the errors of the pipeline the reason of the cause: HTTP client error
\* for a download answered with a 4xx status, HTTP server error for a 5xx
\* status, file too large for an oversized file, storage failure for a
\* failed upload, undetected content type for an undetectable MIME type,
\* timeout for a timeout.
C39_ReasonMatchesCause ==
    fn.op = "extractErrorReason" =>
        /\ fn.result \in Reasons
        /\ fn.cause # "connection" => fn.result = ReasonOf(fn.cause)

\* what does hold: every error gets one of the nine reasons; an oversized
\* file is reported as such, and so is a timeout; a refused status, 4xx or
\* 5xx, is reported as a failed download, and so is a refused connection
\* unless the URL holds the word timeout; a failed upload whose text does
\* not speak of a store is reported as unknown
C39_ReasonsOfTheCode ==
    fn.op = "extractErrorReason" =>
        /\ fn.result \in Reasons
        /\ fn.cause \in {"too large", "timeout"} => fn.result = ReasonOf(fn.cause)
        /\ fn.cause = "connection" =>
            fn.result = IF contains(fn.err, "timeout") THEN "Timeout while fetching URL"
                        ELSE "Failed to download file"
        /\ fn.cause \in {"http 4xx", "http 5xx"} => fn.result = "Failed to download file"
        /\ fn.cause = "upload" => fn.result = "Unknown error"

\* a download answered with 404 is reported as a failed download
C39_NotFound ==
    /\ fn.op = "extractErrorReason" /\ fn.err = "download failed with status 404"
    /\ fn.result = "Failed to download file"

\* an undetectable MIME type of a URL with "store" in its host is reported
\* as a storage failure
C39_ReasonFromURL ==
    /\ fn.op = "extractErrorReason" /\ fn.cause = "mime"
    /\ fn.result = "Failed to store file"

(***************************************************************************)
(* C40.  Failed lookups do not skip.                                       *)
(***************************************************************************)
\* a step in which the dedup lookup of a run fails takes the run to the
\* probe, whatever the per-post list holds; a step in which its global
\* lookup fails leaves it without a record and on no path of reuse, at the
\* MIME detection, the download or one of the ends of the tool selection
FailedLookupGoesOn ==
    [][\A r \in Runs :
        /\ FailsNow(r, "IsURLAlreadyArchived") => runs'[r].pc = "probe"
        /\ FailsNow(r, "GetExistingArchiveForURL") =>
            /\ runs'[r].existing = Nil /\ runs'[r].path = ""
            /\ runs'[r].pc \in {"detect", "archive", "errReply", "done"}
            /\ runs'[r].pc = "done" => runs'[r].exit = "do_nothing"
            /\ runs'[r].pc = "archive" <=>
                 /\ runs[r].meta # Nil /\ runs[r].meta.MimeType # ""
                 /\ runs'[r].toolName \in RegisteredTools]_vars

\* a run whose dedup lookup failed is not skipped and goes through the
\* probe like a run for a URL not yet archived; a run whose global lookup
\* failed reuses nothing: what it downloads it uploads
FailedLookupRuns ==
    \A r \in Runs :
        LET run == runs[r]
        IN /\ DidFail(run, "IsURLAlreadyArchived") =>
                /\ run.exit # "already_archived"
                /\ run.pc = "probe" \/ Did(run, "GetURLMetadata")
                /\ Done(r) => Did(run, "GetExistingArchiveForURL")
                /\ (Done(r) /\ run.toolName \in RegisteredTools) => Did(run, "Archive")
           /\ DidFail(run, "GetExistingArchiveForURL") =>
                /\ run.existing = Nil /\ run.path \in {"", "new"}
                /\ (Done(r) /\ run.toolName \in RegisteredTools) => Did(run, "Archive")
                /\ (Done(r) /\ DidOK(run, "Archive")) => Did(run, "StoreArchivedFile")

\* C40: a run whose per-post dedup lookup fails is not skipped: it goes on
\* through the probe, the tool selection and the download as a run for a
\* URL not yet archived for the post does; a run whose global lookup fails
\* goes on as one that found no global record: it reuses nothing, downloads
\* and uploads what it downloaded.
C40_FailedLookupsDoNotSkip == []FailedLookupRuns /\ FailedLookupGoesOn

\* the URL was archived for the post, the dedup lookup of a second run for
\* the pair failed, and the run archived the URL once more
C40_Witness ==
    \E r \in Runs :
        /\ DidFail(runs[r], "IsURLAlreadyArchived")
        /\ runs[r].prev # 0 /\ WrotePerPost(runs[runs[r].prev])
        /\ Done(r) /\ Len(runs[r].replies) = 1

\* the global record was there, the lookup failed, the run uploaded again
C40_GlobalLookupFailed ==
    \E r \in Runs :
        /\ DidFail(runs[r], "GetExistingArchiveForURL")
        /\ getGlobalArchiveKey(runs[r].url) \in DOMAIN kv
        /\ DidOK(runs[r], "StoreArchivedFile") /\ Len(files) = 2

====
